---- MODULE Spec2Model ----
(***************************************************************************)
(* A model of wolfcrypt/src/pkcs7.c: the PKCS#7 / CMS engine of wolfSSL.   *)
(*                                                                         *)
(* A buffer is a sequence of cells.  A cell is a tuple of integers: <<b>>  *)
(* is the plain value b (a tag, a length, a content byte, an OID arc sum), *)
(* a longer tuple is the output of a cryptographic primitive (a digest, a  *)
(* signature, a wrapped key, a cipher block) kept symbolic so that it is   *)
(* collision free.  A DER header is two cells (the tag and the length, the *)
(* length counting cells), so the parsers walk a buffer with an index as   *)
(* the C code does and fail on a wrong tag or on a length that runs past   *)
(* the end of the buffer.                                                  *)
(***************************************************************************)
EXTENDS Integers, Sequences, FiniteSets, TLC

VARIABLES
    pkcs7,   \* the PKCS7 session structure
    wire,    \* the message buffer handed from an encoder to a decoder
    ret,     \* the return value of the last call
    out,     \* the bytes the last call wrote to its output buffer
    mem,     \* what the secret buffers of the last call hold at its return
    call     \* the last call: its name and its arguments

vars == <<pkcs7, wire, ret, out, mem, call>>

----------------------------------------------------------------------------
(* Error codes (wolfssl/wolfcrypt/error-crypt.h) as used by pkcs7.c.       *)

MEMORY_E == -125
BUFFER_E == -132
LENGTH_ONLY_E == -202
ASN_PARSE_E == -140
ASN_VERSION_E == -141
ASN_EXPECT_0_E == -146
BAD_FUNC_ARG == -173
ALGO_ID_E == -205
SIG_VERIFY_E == -229
PKCS7_OID_E == -268
PKCS7_RECIP_E == -269
ASN_SIG_KEY_E == -169
SKID_E == -281
PKCS7_NO_SIGNER_E == -285

(* ASN.1 tags (wolfssl/wolfcrypt/asn.h) as used by pkcs7.c.                *)

ASN_INTEGER == 2
ASN_OCTET_STRING == 4
ASN_TAG_NULL == 5
ASN_OBJECT_ID == 6
ASN_SEQUENCE == 16
ASN_SET == 17
ASN_UTC_TIME == 23
ASN_CONSTRUCTED == 32
ASN_CONTEXT_SPECIFIC == 128
\* the length octet 0x80 of an indefinite length
ASN_INDEF_LENGTH == 128

(* OID sums (wolfssl/wolfcrypt/asn.h, pkcs7.h) as used by pkcs7.c.         *)

DATA == 651
SIGNED_DATA == 652
ENVELOPED_DATA == 653
ENCRYPTED_DATA == 656
RSAk == 645
ECDSAk == 518
DSAk == 515
SHA256h == 414
CTC_SHA256wRSA == 655
CTC_SHA256wECDSA == 524
CTC_SHAwDSA == 517
AES128CBCb == 414
DES3b == 652

oidHashType == "oidHashType"
oidSigType == "oidSigType"
oidKeyType == "oidKeyType"
oidBlkType == "oidBlkType"
oidIgnoreType == "oidIgnoreType"

----------------------------------------------------------------------------
(* Bounds of the model.                                                    *)

\* longest input handed to wc_PKCS7_PadData
MaxInSz == 3

\* values of the input bytes
PadBytes == {1, 2}

\* block sizes handed to the pad functions: the cipher block sizes 8 and 16,
\* the edges 0 and 1, and sizes around the range of a byte
BlockSizes == {0, 1, 2, 3, 8, 16, 255, 256, 257}

\* slack of the output buffer: outSz is inSz + padSz - 1 + slack
OutSlack == {0, 1, 2}

\* most attributes the caller puts in pkcs7->signedAttribs
MaxCallerAttribs == 5

\* contents signed
SignedContents == {<<>>, <<<<7>>, <<8>>>>}

\* sizes of the output buffer handed to the encoder
OutputSizes == {20, 400}

\* cells written over a cell of a message in transit
TamperCells == {<<9>>}

\* what the memory after a received message holds
Tails == {<<>>, <<<<4>>, <<0>>>>}

----------------------------------------------------------------------------
(* Helpers.                                                                *)

min(a, b) == IF a < b THEN a ELSE b

\* the value of a function of one point: [x \in {v} |-> e] is e with x = v,
\* a local variable assigned once and then read
Value(f) == f[CHOOSE x \in DOMAIN f : TRUE]

Repeat(x, n) == [i \in 1..n |-> x]

SeqsUpTo(S, n) == UNION {[1..k -> S] : k \in 0..n}

\* a byte cast: (byte)x
Byte(x) == x % 256

\* a buffer of plain cells from a sequence of integers
Plain(ints) == [i \in 1..Len(ints) |-> <<ints[i]>>]

\* the integer a cell holds; a symbolic cell read as a tag or a length
\* matches no tag and is no length
IntOf(cell) == IF Len(cell) = 1 THEN cell[1] ELSE -1

\* input[idx], idx counting from 0; cells past the end read as 0 (callers
\* append the memory that follows the buffer when the code may read it)
IntAt(input, idx) ==
    IF idx >= 0 /\ idx < Len(input) THEN IntOf(input[idx + 1]) ELSE 0

\* the cells input[idx .. idx+n), clipped to the buffer
Slice(input, idx, n) ==
    IF n <= 0 \/ idx >= Len(input) THEN <<>>
    ELSE SubSeq(input, idx + 1, IF idx + n > Len(input) THEN Len(input)
                                                       ELSE idx + n)

\* a buffer as one tuple of integers, each cell preceded by its length
RECURSIVE Flat(_)
Flat(buf) ==
    IF Len(buf) = 0 THEN <<>>
    ELSE IF Len(buf) = 1 THEN <<Len(buf[1])>> \o buf[1]
    ELSE LET h == Len(buf) \div 2
         IN  Flat(SubSeq(buf, 1, h)) \o Flat(SubSeq(buf, h + 1, Len(buf)))

----------------------------------------------------------------------------
(* DER writers of asn.c.  Each gives the header cells it writes; the size  *)
(* the C function returns is the length of that header.                    *)

SetSequence(len) == <<<<ASN_SEQUENCE + ASN_CONSTRUCTED>>, <<len>>>>

SetSet(len) == <<<<ASN_SET + ASN_CONSTRUCTED>>, <<len>>>>

SetOctetString(len) == <<<<ASN_OCTET_STRING>>, <<len>>>>

SetExplicit(number, len) ==
    <<<<ASN_CONSTRUCTED + ASN_CONTEXT_SPECIFIC + number>>, <<len>>>>

SetImplicit(tag, number, len) ==
    <<<<(IF tag = ASN_SEQUENCE \/ tag = ASN_SET THEN ASN_CONSTRUCTED ELSE 0)
        + ASN_CONTEXT_SPECIFIC + number>>, <<len>>>>

SetMyVersion(version) == <<<<ASN_INTEGER>>, <<1>>, <<version>>>>

SetSerialNumber(sn) == <<<<ASN_INTEGER>>, <<Len(sn)>>>> \o sn

\* an OBJECT IDENTIFIER whose arcs sum to oid
SetObjectId(oid) == <<<<ASN_OBJECT_ID>>, <<1>>, <<oid>>>>

IsSigAlgoECDSA(algoOID) == algoOID = CTC_SHA256wECDSA

\* AlgorithmIdentifier: NULL parameters for a hash, an RSA signature or an
\* RSA key; curveSz more cells are left to the caller
SetAlgoID(algoOID, type, curveSz) ==
    LET tagSz == IF \/ type = oidHashType
                    \/ (type = oidSigType /\ ~IsSigAlgoECDSA(algoOID))
                    \/ (type = oidKeyType /\ algoOID = RSAk)
                 THEN 2 ELSE 0
        null == IF tagSz = 2 THEN <<<<ASN_TAG_NULL>>, <<0>>>> ELSE <<>>
    IN  SetSequence(3 + tagSz + curveSz) \o SetObjectId(algoOID) \o null

----------------------------------------------------------------------------
(* DER readers of asn.c.  Each gives [ret, idx, val]: the return value,    *)
(* the index after the call and the value read (a length, a version, an    *)
(* OID sum).  idx is unchanged when ret is negative.                       *)

GetLength(input, idx, maxIdx) ==
    IF idx + 1 > maxIdx THEN [ret |-> BUFFER_E, idx |-> idx, val |-> 0]
    ELSE LET b == IntAt(input, idx)
             length == IF b = ASN_INDEF_LENGTH THEN 0 ELSE b
         IN
         IF length < 0 \/ idx + 1 + length > maxIdx
         THEN [ret |-> BUFFER_E, idx |-> idx, val |-> 0]
         ELSE [ret |-> length, idx |-> idx + 1, val |-> length]

GetASNHeader(input, tag, idx, maxIdx) ==
    IF idx + 1 > maxIdx THEN [ret |-> BUFFER_E, idx |-> idx, val |-> 0]
    ELSE IF IntAt(input, idx) # tag
    THEN [ret |-> ASN_PARSE_E, idx |-> idx, val |-> 0]
    ELSE LET l == GetLength(input, idx + 1, maxIdx) IN
         IF l.ret < 0 THEN [ret |-> ASN_PARSE_E, idx |-> idx, val |-> 0]
         ELSE l

GetSequence(input, idx, maxIdx) ==
    GetASNHeader(input, ASN_SEQUENCE + ASN_CONSTRUCTED, idx, maxIdx)

GetSet(input, idx, maxIdx) ==
    GetASNHeader(input, ASN_SET + ASN_CONSTRUCTED, idx, maxIdx)

GetMyVersion(input, idx, maxIdx) ==
    IF idx + 3 > maxIdx THEN [ret |-> ASN_PARSE_E, idx |-> idx, val |-> 0]
    ELSE IF IntAt(input, idx) # ASN_INTEGER
    THEN [ret |-> ASN_PARSE_E, idx |-> idx, val |-> 0]
    ELSE IF IntAt(input, idx + 1) # 1
    THEN [ret |-> ASN_VERSION_E, idx |-> idx, val |-> 0]
    ELSE [ret |-> IntAt(input, idx + 2), idx |-> idx + 3,
          val |-> IntAt(input, idx + 2)]

\* ret 0 and val the length of the OID; idx is left at its first cell
GetASNObjectId(input, idx, maxIdx) ==
    LET h == GetASNHeader(input, ASN_OBJECT_ID, idx, maxIdx) IN
    IF h.ret < 0 THEN [ret |-> ASN_PARSE_E, idx |-> idx, val |-> 0]
    ELSE [ret |-> 0, idx |-> h.idx, val |-> h.val]

\* the sum of the cells input[idx .. idx+n)
RECURSIVE OidSum(_, _, _)
OidSum(input, idx, n) ==
    IF n <= 0 THEN 0 ELSE IntAt(input, idx) + OidSum(input, idx + 1, n - 1)

\* ret 0 and val the OID sum; idx is left after the OID
GetObjectId(input, idx, maxIdx) ==
    Value([h \in {GetASNObjectId(input, idx, maxIdx)} |->
    IF h.ret < 0 THEN h
    ELSE [ret |-> 0, idx |-> h.idx + h.val,
          val |-> OidSum(input, h.idx, h.val)]])

\* AlgorithmIdentifier: the OID sum, the optional NULL consumed
GetAlgoId(input, idx, maxIdx) ==
    LET s == GetSequence(input, idx, maxIdx) IN
    IF s.ret < 0 THEN [ret |-> ASN_PARSE_E, idx |-> idx, val |-> 0]
    ELSE LET o == GetObjectId(input, s.idx, maxIdx) IN
    IF o.ret < 0 THEN [ret |-> ASN_PARSE_E, idx |-> idx, val |-> 0]
    ELSE IF o.idx < maxIdx /\ IntAt(input, o.idx) = ASN_TAG_NULL
    THEN IF o.idx + 2 > maxIdx \/ IntAt(input, o.idx + 1) # 0
         THEN [ret |-> ASN_EXPECT_0_E, idx |-> idx, val |-> 0]
         ELSE [ret |-> 0, idx |-> o.idx + 2, val |-> o.val]
    ELSE o

----------------------------------------------------------------------------
(* Cryptographic primitives (hash.c, rsa.c, ecc.c), kept symbolic.         *)

\* the digest size of a hash OID, in cells; negative for an unknown hash
wc_HashGetDigestSize(hashOID) == IF hashOID = SHA256h THEN 1 ELSE BAD_FUNC_ARG

\* the digest of a buffer: one cell
Hash(hashOID, buf) == <<<<-1, hashOID>> \o Flat(buf)>>

\* wc_RsaSSL_Sign / wc_ecc_sign_hash with private key key: one cell
wc_RsaSSL_Sign(in, key) == <<<<-2, key>> \o Flat(in)>>

wc_ecc_sign_hash(in, key) == <<<<-3, key>> \o Flat(in)>>

----------------------------------------------------------------------------
(* Certificates.  A DER certificate is a SEQUENCE header and one cell that *)
(* holds its body: issuer name, serial number, key OID, public key and     *)
(* subject key identifier.  The private key of a public key k is k.        *)

Cert(issuer, serial, keyOID, key, skid) ==
    SetSequence(1) \o <<<<-5, issuer, serial, keyOID, key, skid>>>>

\* the hash of an issuer name (GetNameHash, DecodedCert.issuerHash)
NameHash(name) == <<<<-4>> \o Flat(name)>>

\* asn.c ParseCert: the DecodedCert fields pkcs7.c reads
ParseCert(der) ==
    IF \/ Len(der) # 3
       \/ IntAt(der, 0) # ASN_SEQUENCE + ASN_CONSTRUCTED
       \/ IntAt(der, 1) # 1
       \/ Len(der[3]) # 6
       \/ der[3][1] # -5
       \/ der[3][4] \notin {RSAk, ECDSAk}
    THEN [ret |-> ASN_PARSE_E, issuerRaw |-> <<>>, serial |-> <<>>,
          keyOID |-> 0, publicKey |-> 0, extSubjKeyId |-> <<>>,
          issuerHash |-> <<>>]
    ELSE [ret |-> 0, issuerRaw |-> Plain(<<der[3][2]>>),
          serial |-> Plain(<<der[3][3]>>),
          keyOID |-> der[3][4], publicKey |-> der[3][5],
          extSubjKeyId |-> Plain(<<der[3][6]>>),
          issuerHash |-> NameHash(Plain(<<der[3][2]>>))]

----------------------------------------------------------------------------
(* The PKCS7 structure and its initialisers.                               *)

\* no structure: none was made yet, or it was released
NoSession == [state |-> "none"]

SID_ISSUER_AND_SERIAL_NUMBER == 0
SID_SUBJECT_KEY_IDENTIFIER == 1
MAX_PKCS7_CERTS == 4
MAX_OID_SZ == 32

\* wc_PKCS7_Init: every field zero, then heap and devId
wc_PKCS7_Init(heap, devId) ==
    [heap |-> heap, devId |-> devId, isDynamic |-> 0,
     content |-> <<>>, contentOID |-> 0, contentType |-> <<>>,
     hashOID |-> 0, encryptOID |-> 0, publicKeyOID |-> 0, publicKey |-> 0,
     privateKey |-> 0, rng |-> 0,
     keyWrapOID |-> 0, keyAgreeOID |-> 0, ukm |-> <<>>,
     singleCert |-> <<>>, certList |-> <<>>,
     issuer |-> <<>>, issuerSn |-> <<>>, issuerHash |-> <<<<0>>>>,
     issuerSubjKeyId |-> <<<<0>>>>, sidType |-> 0,
     signedAttribs |-> <<>>, noDegenerate |-> 0,
     cert |-> [i \in 1..MAX_PKCS7_CERTS |-> <<>>],
     decodedAttrib |-> <<>>, der |-> <<>>, contentDynamic |-> <<>>,
     encryptionKey |-> <<>>, encryptionKeySz |-> 0,
     unprotectedAttribs |-> <<>>]

\* wc_PKCS7_New: an allocated structure
wc_PKCS7_New(heap, devId) == [wc_PKCS7_Init(heap, devId) EXCEPT !.isDynamic = 1]

\* [ret, p]: the return value and the structure after the call
wc_PKCS7_InitWithCert(pkcs7_, derCert) ==
    LET base == [wc_PKCS7_Init(pkcs7_.heap, pkcs7_.devId)
                    EXCEPT !.isDynamic = pkcs7_.isDynamic]
    IN  IF derCert = <<>> THEN [ret |-> 0, p |-> base]
        ELSE LET listed == [base EXCEPT !.singleCert = derCert,
                                        !.certList = <<derCert>>]
                 dCert == ParseCert(derCert)
             IN  IF dCert.ret < 0 THEN [ret |-> dCert.ret, p |-> listed]
                 ELSE [ret |-> 0,
                       p |-> [listed EXCEPT
                                !.publicKey = dCert.publicKey,
                                !.publicKeyOID = dCert.keyOID,
                                !.issuerHash = dCert.issuerHash,
                                !.issuer = dCert.issuerRaw,
                                !.issuerSn = dCert.serial,
                                !.issuerSubjKeyId = dCert.extSubjKeyId,
                                !.sidType = SID_ISSUER_AND_SERIAL_NUMBER]]

\* a list that grows at its tail instead of its head
AddCertificate_Append(pkcs7_, derCert) ==
    IF derCert = <<>> THEN [ret |-> BAD_FUNC_ARG, p |-> pkcs7_]
    ELSE [ret |-> 0, p |-> [pkcs7_ EXCEPT !.certList = @ \o <<derCert>>]]

\* [ret, p]: the certificate is put at the head of the certificate list; it
\* is not parsed
wc_PKCS7_AddCertificate(pkcs7_, derCert) ==
    IF derCert = <<>> THEN [ret |-> BAD_FUNC_ARG, p |-> pkcs7_]
    ELSE [ret |-> 0, p |-> [pkcs7_ EXCEPT !.certList = <<derCert>> \o @]]

\* wc_PKCS7_FreeCertSet: the structure with its certificate list released
wc_PKCS7_FreeCertSet(pkcs7_) == [pkcs7_ EXCEPT !.certList = <<>>]

\* what cert->next of the node that wc_PKCS7_AddCertificate allocates holds
\* after the call: the old head of a list that is not empty; on an empty
\* list the field is not written, and it holds what the allocated memory
\* held (uninit)
AddCertificate_next(pkcs7_, uninit) ==
    IF pkcs7_.certList = <<>> THEN uninit ELSE "node"

\* the heap regions wc_PKCS7_Free releases, as a count for each kind
Released(pkcs7_) ==
    [nodes |-> 0,
     attribs |-> 3 * Len(pkcs7_.decodedAttrib),
     der |-> IF pkcs7_.der # <<>> THEN 1 ELSE 0,
     contentDynamic |-> IF pkcs7_.contentDynamic # <<>> THEN 1 ELSE 0,
     session |-> IF pkcs7_.isDynamic # 0 THEN 1 ELSE 0,
     caller |-> 0]

\* wc_PKCS7_Free: [released, steps, p]: the regions released, the accesses
\* to the structure and the releases in the order made, and the structure
\* left to the caller (NoSession: it was released)
wc_PKCS7_Free(pkcs7_) ==
    [released |-> Released(pkcs7_),
     steps |-> <<"read decodedAttrib", "read der", "read contentDynamic",
                 "read isDynamic">>
               \o (IF pkcs7_.isDynamic # 0
                   THEN <<"write isDynamic", "read heap", "free pkcs7">>
                   ELSE <<>>)
               \o <<"write contentTypeSz">>,
     p |-> IF pkcs7_.isDynamic # 0 THEN NoSession
           ELSE [pkcs7_ EXCEPT !.contentType = <<>>]]

\* wc_PKCS7_AllowDegenerate: the structure after the call
wc_PKCS7_AllowDegenerate(pkcs7_, flag) ==
    IF flag # 0 THEN [pkcs7_ EXCEPT !.noDegenerate = 0]
    ELSE [pkcs7_ EXCEPT !.noDegenerate = 1]

\* [ret, p]
wc_PKCS7_SetSignerIdentifierType(pkcs7_, type) ==
    IF type # SID_ISSUER_AND_SERIAL_NUMBER /\ type # SID_SUBJECT_KEY_IDENTIFIER
    THEN [ret |-> BAD_FUNC_ARG, p |-> pkcs7_]
    ELSE [ret |-> 0, p |-> [pkcs7_ EXCEPT !.sidType = type]]

\* [ret, p]
wc_PKCS7_SetContentType(pkcs7_, contentType, sz) ==
    IF sz = 0 \/ sz > MAX_OID_SZ THEN [ret |-> BAD_FUNC_ARG, p |-> pkcs7_]
    ELSE [ret |-> 0, p |-> [pkcs7_ EXCEPT !.contentType = Slice(contentType, 0, sz)]]

\* the static wc_SetContentType: [ret, out], the OID written for a content
\* type, ret its size; an unknown type writes nothing and returns 0
wc_SetContentType(pkcs7TypeOID, outputSz) ==
    IF pkcs7TypeOID \notin {DATA, SIGNED_DATA, ENVELOPED_DATA, ENCRYPTED_DATA}
    THEN [ret |-> 0, out |-> <<>>]
    ELSE IF outputSz < Len(SetObjectId(pkcs7TypeOID))
    THEN [ret |-> BAD_FUNC_ARG, out |-> <<>>]
    ELSE [ret |-> Len(SetObjectId(pkcs7TypeOID)),
          out |-> SetObjectId(pkcs7TypeOID)]

----------------------------------------------------------------------------
(* Signed attributes of the SignedData encoder.                            *)

\* the attribute OIDs, local arrays of wc_PKCS7_BuildSignedAttributes
contentTypeOid == SetObjectId(93)
messageDigestOid == SetObjectId(94)
signingTimeOid == SetObjectId(95)

\* GetAsnTimeString: the signing time as a UTCTime
signingTime == <<<<ASN_UTC_TIME>>, <<1>>, <<7>>>>

\* an EncodedAttrib of the zeroed ESD
ZeroAttrib ==
    [valueSeq |-> <<>>, oid |-> <<>>, valueSet |-> <<>>, value |-> <<>>,
     totalSz |-> 0]

\* one attribute as EncodeAttributes lays it out
EncodeAttribute(attrib) ==
    LET valueSet == SetSet(Len(attrib.value))
        valueSeq == SetSequence(Len(attrib.value) + Len(valueSet)
                                + Len(attrib.oid))
    IN  [valueSeq |-> valueSeq, oid |-> attrib.oid, valueSet |-> valueSet,
         value |-> attrib.value,
         totalSz |-> Len(attrib.value) + Len(valueSet) + Len(attrib.oid)
                     + Len(valueSeq)]

RECURSIVE SumTotalSz(_)
SumTotalSz(ea) ==
    IF ea = <<>> THEN 0 ELSE ea[1].totalSz + SumTotalSz(Tail(ea))

\* [ea, sz]: the first min(eaSz, attribsSz) attributes encoded, and the sum
\* of their sizes
EncodeAttributes(eaSz, attribs, attribsSz) ==
    LET maxSz == min(eaSz, attribsSz)
        ea == [i \in 1..maxSz |-> EncodeAttribute(attribs[i])]
    IN  [ea |-> ea, sz |-> SumTotalSz(ea)]

\* what a pointer into the frame of wc_PKCS7_BuildSignedAttributes reads
\* after the function has returned: the bytes still there, or overwritten
Stale(bytes, stack) ==
    IF stack = "intact" THEN bytes ELSE [i \in 1..Len(bytes) |-> <<0>>]

\* [ret, signedAttribs, signedAttribsCount, signedAttribsSz]: the seven
\* EncodedAttrib slots of the ESD after the call, as FlattenAttributes will
\* read them
wc_PKCS7_BuildSignedAttributes(pkcs7_, contentDigest, contentType, stack) ==
    LET cannedAttribs ==
            <<[oid |-> contentTypeOid, value |-> contentType],
              [oid |-> messageDigestOid, value |-> contentDigest],
              [oid |-> signingTimeOid, value |-> signingTime]>>
        cannedAttribsCount == Len(cannedAttribs)
    IN
    Value([canned \in {EncodeAttributes(3, cannedAttribs, cannedAttribsCount)} |->
    LET caller == EncodeAttributes(4, pkcs7_.signedAttribs,
                                   Len(pkcs7_.signedAttribs))
        dangling == [i \in 1..Len(canned.ea) |->
                        [canned.ea[i] EXCEPT
                            !.oid = Stale(@, stack),
                            !.value = IF i = 3 THEN Stale(@, stack) ELSE @]]
        slots == dangling \o caller.ea
    IN  [ret |-> 0,
         signedAttribs |-> slots \o [i \in 1..(7 - Len(slots)) |-> ZeroAttrib],
         signedAttribsCount |-> cannedAttribsCount + Len(pkcs7_.signedAttribs),
         signedAttribsSz |-> canned.sz + caller.sz]])

FlattenOne(a) == a.valueSeq \o a.oid \o a.valueSet \o a.value

RECURSIVE FlattenFrom(_, _, _, _)
FlattenFrom(ea, i, eaSz, adjacent) ==
    IF i > eaSz THEN <<>>
    ELSE FlattenOne(IF i <= Len(ea) THEN ea[i] ELSE adjacent)
         \o FlattenFrom(ea, i + 1, eaSz, adjacent)

\* the bytes FlattenAttributes writes for eaSz entries of the array ea; an
\* entry past the end of the array is whatever lies next to it (adjacent)
FlattenAttributes(ea, eaSz, adjacent) == FlattenFrom(ea, 1, eaSz, adjacent)

----------------------------------------------------------------------------
(* The SignedData encoder.                                                 *)

INVALID_DEVID == -2

\* the private keys that decode as RSA keys and as ECC keys
RsaKeys == {1, 3}
EccKeys == {2, 4}

\* [ret, contentAttribsDigest, digestInfo]
wc_PKCS7_BuildDigestInfo(pkcs7_, flatSignedAttribs, contentDigest) ==
    LET hashSz == wc_HashGetDigestSize(pkcs7_.hashOID) IN
    IF hashSz < 0
    THEN [ret |-> hashSz, contentAttribsDigest |-> <<>>, digestInfo |-> <<>>]
    ELSE
    LET attribSet == SetSet(Len(flatSignedAttribs))
        contentAttribsDigest ==
            IF Len(pkcs7_.signedAttribs) # 0
            THEN Hash(pkcs7_.hashOID, attribSet \o flatSignedAttribs)
            ELSE Slice(contentDigest, 2, hashSz)
        algoId == SetAlgoID(pkcs7_.hashOID, oidHashType, 0)
        digestStr == SetOctetString(hashSz)
        digestInfoSeq == SetSequence(Len(algoId) + Len(digestStr) + hashSz)
    IN  [ret |-> 0, contentAttribsDigest |-> contentAttribsDigest,
         digestInfo |-> digestInfoSeq \o algoId \o digestStr
                        \o Slice(contentAttribsDigest, 0, hashSz)]

\* [ret, sig]: ret the size of the signature; without a private key buffer
\* the key of the device devId signs (key 0)
wc_PKCS7_RsaSign(pkcs7_, in) ==
    IF pkcs7_.rng = 0 THEN [ret |-> BAD_FUNC_ARG, sig |-> <<>>]
    ELSE IF pkcs7_.privateKey # 0
    THEN IF pkcs7_.privateKey \in RsaKeys
         THEN [ret |-> 1, sig |-> wc_RsaSSL_Sign(in, pkcs7_.privateKey)]
         ELSE [ret |-> ASN_PARSE_E, sig |-> <<>>]
    ELSE IF pkcs7_.devId = INVALID_DEVID
    THEN [ret |-> BAD_FUNC_ARG, sig |-> <<>>]
    ELSE [ret |-> 1, sig |-> wc_RsaSSL_Sign(in, 0)]

wc_PKCS7_EcdsaSign(pkcs7_, in) ==
    IF pkcs7_.rng = 0 THEN [ret |-> BAD_FUNC_ARG, sig |-> <<>>]
    ELSE IF pkcs7_.privateKey # 0
    THEN IF pkcs7_.privateKey \in EccKeys
         THEN [ret |-> 1, sig |-> wc_ecc_sign_hash(in, pkcs7_.privateKey)]
         ELSE [ret |-> ASN_PARSE_E, sig |-> <<>>]
    ELSE IF pkcs7_.devId = INVALID_DEVID
    THEN [ret |-> BAD_FUNC_ARG, sig |-> <<>>]
    ELSE [ret |-> 1, sig |-> wc_ecc_sign_hash(in, 0)]

\* [ret, contentAttribsDigest, encContentDigest]
wc_PKCS7_SignedDataBuildSignature(pkcs7_, flatSignedAttribs, contentDigest) ==
    Value([d \in {wc_PKCS7_BuildDigestInfo(pkcs7_, flatSignedAttribs, contentDigest)} |->
    IF d.ret < 0
    THEN [ret |-> d.ret, contentAttribsDigest |-> <<>>, encContentDigest |-> <<>>]
    ELSE LET r == IF pkcs7_.publicKeyOID = RSAk
                  THEN wc_PKCS7_RsaSign(pkcs7_, d.digestInfo)
                  ELSE IF pkcs7_.publicKeyOID = ECDSAk
                  THEN wc_PKCS7_EcdsaSign(pkcs7_, d.contentAttribsDigest)
                  ELSE [ret |-> BAD_FUNC_ARG, sig |-> <<>>]
         IN  [ret |-> r.ret, contentAttribsDigest |-> d.contentAttribsDigest,
              encContentDigest |-> r.sig]])

\* [ret, algoId]
wc_PKCS7_SignedDataGetEncAlgoId(pkcs7_) ==
    LET algoId == IF pkcs7_.publicKeyOID = RSAk /\ pkcs7_.hashOID = SHA256h
                  THEN CTC_SHA256wRSA
                  ELSE IF pkcs7_.publicKeyOID = ECDSAk /\ pkcs7_.hashOID = SHA256h
                  THEN CTC_SHA256wECDSA
                  ELSE 0
    IN  IF algoId = 0 THEN [ret |-> BAD_FUNC_ARG, algoId |-> 0]
        ELSE [ret |-> 0, algoId |-> algoId]

\* the ESD fields kept for inspection after the encoder returns
NoEsd ==
    [signedAttribsCount |-> 0, signedAttribsSz |-> 0, flatSignedAttribs |-> <<>>,
     signedAttribSet |-> <<>>, contentDigest |-> <<>>,
     contentAttribsDigest |-> <<>>, contentIdx |-> 0, signerIdx |-> 0,
     attribIdx |-> 0, sid |-> <<>>, signerDigAlgoId |-> <<>>,
     overrun |-> FALSE]

\* output2Sz of a call without a second buffer (output2 and output2Sz NULL)
NoBuffer == -1

\* a return before anything is written: out and out2 are the cells written
\* to output and to output2, outputSz and output2Sz what the call stored in
\* *outputSz and *output2Sz (NoBuffer: nothing stored)
EncodeSignedFail(code, pkcs7_) ==
    [ret |-> code, out |-> <<>>, out2 |-> <<>>, outputSz |-> NoBuffer,
     output2Sz |-> NoBuffer, p |-> pkcs7_, esd |-> NoEsd]

RECURSIVE Concat(_)
Concat(bufs) == IF bufs = <<>> THEN <<>> ELSE bufs[1] \o Concat(Tail(bufs))

\* PKCS7_EncodeSigned with an output buffer of outputSz cells and, unless
\* output2Sz is NoBuffer, a second buffer of output2Sz cells.
\* [ret, out, out2, outputSz, output2Sz, p, esd]: the return value, the cells
\* written to the buffers, the sizes stored, the structure after the call and
\* the ESD.  stack and adjacent are what the reads of released and of
\* neighbouring memory find.
PKCS7_EncodeSigned(pkcs7_, hashBuf, hashSz, outputSz, output2Sz, stack, adjacent) ==
    IF \/ Len(pkcs7_.content) = 0 \/ pkcs7_.encryptOID = 0
       \/ pkcs7_.hashOID = 0 \/ pkcs7_.rng = 0
       \/ outputSz = 0 \/ hashSz = 0
    THEN EncodeSignedFail(BAD_FUNC_ARG, pkcs7_)
    ELSE
    LET unset == Len(pkcs7_.contentType) = 0
        oid == IF unset /\ pkcs7_.contentOID = 0 THEN DATA
               ELSE pkcs7_.contentOID
        ct == wc_SetContentType(oid, MAX_OID_SZ)
    IN
    Value([p1 \in {IF unset
                   THEN [pkcs7_ EXCEPT !.contentOID = oid,
                                       !.contentType = IF ct.ret < 0 THEN @
                                                       ELSE ct.out]
                   ELSE pkcs7_} |->
    LET signedDataOid == wc_SetContentType(SIGNED_DATA, MAX_OID_SZ)
    IN
    IF unset /\ ct.ret < 0 THEN EncodeSignedFail(ct.ret, p1)
    ELSE IF signedDataOid.ret < 0 THEN EncodeSignedFail(signedDataOid.ret, p1)
    ELSE IF wc_HashGetDigestSize(p1.hashOID) # hashSz
    THEN EncodeSignedFail(BUFFER_E, p1)
    ELSE
    LET contentSz == Len(p1.content)
        contentTypeSz == Len(p1.contentType)
        contentDigest == <<<<ASN_OCTET_STRING>>, <<Byte(hashSz)>>>>
                         \o Slice(hashBuf, 0, hashSz)
        innerOctets == SetOctetString(contentSz)
        innerContSeq == SetExplicit(0, Len(innerOctets) + contentSz)
        contentInfoSeq == SetSequence(contentSz + Len(innerOctets)
                                      + contentTypeSz + Len(innerContSeq))
        issuerSn == SetSerialNumber(p1.issuerSn)
        issuerName == SetSequence(Len(p1.issuer))
        issuerSnSeq == SetSequence(Len(issuerSn) + Len(issuerName)
                                   + Len(p1.issuer))
        issuerSKID == SetOctetString(Len(p1.issuerSubjKeyId))
        issuerSKIDSeq == SetExplicit(0, Len(issuerSKID)
                                        + Len(p1.issuerSubjKeyId))
        bySerial == p1.sidType = SID_ISSUER_AND_SERIAL_NUMBER
        sid == IF bySerial
               THEN issuerSnSeq \o issuerName \o p1.issuer \o issuerSn
               ELSE issuerSKIDSeq \o issuerSKID \o p1.issuerSubjKeyId
        signerVersion == SetMyVersion(IF bySerial THEN 1 ELSE 3)
        signerDigAlgoId == SetAlgoID(p1.hashOID, oidHashType, 0)
        enc == wc_PKCS7_SignedDataGetEncAlgoId(p1)
    IN
    IF p1.sidType \notin {SID_ISSUER_AND_SERIAL_NUMBER,
                          SID_SUBJECT_KEY_IDENTIFIER}
    THEN EncodeSignedFail(SKID_E, p1)
    ELSE IF enc.ret < 0 THEN EncodeSignedFail(enc.ret, p1)
    ELSE
    LET digEncAlgoId == SetAlgoID(enc.algoId, oidSigType, 0)
        withAttribs == Len(p1.signedAttribs) # 0
    IN
    Value([attrs \in {wc_PKCS7_BuildSignedAttributes(p1, contentDigest,
                                                     p1.contentType, stack)} |->
    LET flatSignedAttribsSz == IF withAttribs THEN attrs.signedAttribsSz ELSE 0
        flatSignedAttribs ==
            IF withAttribs
            THEN Slice(FlattenAttributes(attrs.signedAttribs,
                                         attrs.signedAttribsCount, adjacent),
                       0, flatSignedAttribsSz)
            ELSE <<>>
        signedAttribSet == IF withAttribs
                           THEN SetImplicit(ASN_SET, 0, attrs.signedAttribsSz)
                           ELSE <<>>
    IN
    Value([sig \in {wc_PKCS7_SignedDataBuildSignature(p1, flatSignedAttribs,
                                                      contentDigest)} |->
    IF sig.ret < 0 THEN EncodeSignedFail(sig.ret, p1)
    ELSE
    LET encContentDigestSz == sig.ret
        signerDigest == SetOctetString(encContentDigestSz)
    IN
    Value([signerInfoBody \in {Len(sid) + Len(signerVersion) + Len(signerDigAlgoId)
                               + Len(digEncAlgoId) + flatSignedAttribsSz
                               + Len(signedAttribSet) + Len(signerDigest)
                               + encContentDigestSz} |->
    LET signerInfoSeq == SetSequence(signerInfoBody)
        signerInfoSet == SetSet(signerInfoBody + Len(signerInfoSeq))
        signerInfoSz == signerInfoBody + Len(signerInfoSeq) + Len(signerInfoSet)
        certs == Concat(p1.certList)
        certSetSz == Len(certs)
        certsSet == SetImplicit(ASN_SET, 0, certSetSz)
        singleDigAlgoId == SetAlgoID(p1.hashOID, oidHashType, 0)
        digAlgoIdSet == SetSet(Len(singleDigAlgoId))
        version == SetMyVersion(1)
        totalSz0 == Len(version) + Len(singleDigAlgoId) + Len(digAlgoIdSet)
                    + Len(contentInfoSeq) + contentTypeSz + Len(innerContSeq)
                    + Len(innerOctets) + contentSz
        total2Sz == Len(certsSet) + certSetSz + signerInfoSz
        innerSeq == SetSequence(totalSz0 + total2Sz)
    IN
    Value([totalSz1 \in {totalSz0 + Len(innerSeq)} |->
    LET outerContent == SetExplicit(0, totalSz1 + total2Sz)
        totalSz2 == totalSz1 + Len(outerContent) + signedDataOid.ret
        outerSeq == SetSequence(totalSz2 + total2Sz)
        totalSz == totalSz2 + Len(outerSeq)
    IN
    Value([head \in {outerSeq \o signedDataOid.out \o outerContent \o innerSeq
                     \o version \o digAlgoIdSet \o singleDigAlgoId
                     \o contentInfoSeq \o p1.contentType \o innerContSeq
                     \o innerOctets} |->
    LET twoBuffers == output2Sz # NoBuffer
        signer == certsSet \o certs \o signerInfoSet
                  \o signerInfoSeq \o signerVersion \o sid \o signerDigAlgoId
        mid == p1.content \o signer
        attribs == IF flatSignedAttribsSz > 0
                   THEN signedAttribSet \o flatSignedAttribs ELSE <<>>
        foot == digEncAlgoId \o signerDigest \o sig.encContentDigest
        output == head \o mid \o attribs \o foot
        output2 == signer \o attribs \o foot
    IN
    IF twoBuffers /\ total2Sz > output2Sz THEN EncodeSignedFail(BUFFER_E, p1)
    ELSE IF (IF twoBuffers THEN totalSz - contentSz ELSE totalSz) > outputSz
    THEN EncodeSignedFail(BUFFER_E, p1)
    ELSE [ret |-> IF twoBuffers THEN 0 ELSE Len(output),
          out |-> IF twoBuffers THEN head ELSE output,
          out2 |-> IF twoBuffers THEN output2 ELSE <<>>,
          outputSz |-> IF twoBuffers THEN Len(head) ELSE Len(output),
          output2Sz |-> IF twoBuffers THEN Len(output2) ELSE NoBuffer,
          p |-> wc_PKCS7_FreeCertSet(p1),
          esd |-> [signedAttribsCount |->
                       IF withAttribs THEN attrs.signedAttribsCount ELSE 0,
                   signedAttribsSz |-> flatSignedAttribsSz,
                   flatSignedAttribs |-> flatSignedAttribs,
                   signedAttribSet |-> signedAttribSet,
                   contentDigest |-> contentDigest,
                   contentAttribsDigest |-> sig.contentAttribsDigest,
                   contentIdx |-> Len(head),
                   signerIdx |-> Len(head) + contentSz + Len(certsSet)
                                 + certSetSz,
                   attribIdx |-> Len(head) + Len(mid),
                   sid |-> sid, signerDigAlgoId |-> signerDigAlgoId,
                   overrun |-> withAttribs /\ attrs.signedAttribsCount > 7]]])])])])])])

\* a head/foot encoder that also copies the content into the head
EncodeSignedData_ex_ContentInHead(pkcs7_, hashBuf, hashSz, outputHeadSz, outputFootSz, stack, adjacent) ==
    IF outputFootSz = NoBuffer THEN EncodeSignedFail(BAD_FUNC_ARG, pkcs7_)
    ELSE LET r == PKCS7_EncodeSigned(pkcs7_, hashBuf, hashSz, outputHeadSz,
                                     outputFootSz, stack, adjacent)
         IN  IF r.ret # 0 THEN r
             ELSE [r EXCEPT !.out = @ \o pkcs7_.content,
                            !.outputSz = @ + Len(pkcs7_.content)]

\* wc_PKCS7_EncodeSignedData_ex: hashBuf and hashSz are the caller's digest
\* of the content, outputHeadSz and outputFootSz the sizes of its buffers
\* (outputFootSz NoBuffer: outputFoot NULL)
wc_PKCS7_EncodeSignedData_ex(pkcs7_, hashBuf, hashSz, outputHeadSz, outputFootSz, stack, adjacent) ==
    IF outputFootSz = NoBuffer THEN EncodeSignedFail(BAD_FUNC_ARG, pkcs7_)
    ELSE PKCS7_EncodeSigned(pkcs7_, hashBuf, hashSz, outputHeadSz,
                            outputFootSz, stack, adjacent)

\* [ret, out, out2, outputSz, output2Sz, p, esd]
wc_PKCS7_EncodeSignedData(pkcs7_, outputSz, stack, adjacent) ==
    IF Len(pkcs7_.content) = 0 THEN EncodeSignedFail(BAD_FUNC_ARG, pkcs7_)
    ELSE LET hashSz == wc_HashGetDigestSize(pkcs7_.hashOID) IN
         IF hashSz < 0 THEN EncodeSignedFail(hashSz, pkcs7_)
         ELSE PKCS7_EncodeSigned(pkcs7_,
                                 Hash(pkcs7_.hashOID, pkcs7_.content), hashSz,
                                 outputSz, NoBuffer, stack, adjacent)

----------------------------------------------------------------------------
(* The SignedData verifier.                                                *)

\* wc_PKCS7_RsaVerify: the certificates of the message are tried in turn
RsaCertVerifies(der, sig, hash) ==
    LET dCert == ParseCert(der) IN
    /\ der # <<>>
    /\ dCert.ret >= 0
    /\ dCert.publicKey \in RsaKeys
    /\ sig = wc_RsaSSL_Sign(hash, dCert.publicKey)

wc_PKCS7_RsaVerify(pkcs7_, sig, hash) ==
    IF sig = <<>> \/ hash = <<>> THEN BAD_FUNC_ARG
    ELSE IF \E i \in 1..MAX_PKCS7_CERTS : RsaCertVerifies(pkcs7_.cert[i], sig, hash)
    THEN Len(hash)
    ELSE SIG_VERIFY_E

\* wc_PKCS7_EcdsaVerify: each certificate that parses is a try, made with
\* the public key of the structure
EccCertVerifies(pkcs7_, der, sig, hash) ==
    /\ der # <<>>
    /\ ParseCert(der).ret >= 0
    /\ pkcs7_.publicKey \in EccKeys
    /\ sig = wc_ecc_sign_hash(hash, pkcs7_.publicKey)

wc_PKCS7_EcdsaVerify(pkcs7_, sig, hash) ==
    IF sig = <<>> THEN BAD_FUNC_ARG
    ELSE IF \E i \in 1..MAX_PKCS7_CERTS :
                EccCertVerifies(pkcs7_, pkcs7_.cert[i], sig, hash)
    THEN 0
    ELSE SIG_VERIFY_E

\* a verifier digest over the attribute bytes under the IMPLICIT [0] header
\* of the wire
BuildSignedDataDigest_WireTag(pkcs7_, signedAttrib, signedAttribSz) ==
    LET hashSz == wc_HashGetDigestSize(pkcs7_.hashOID) IN
    IF hashSz < 0
    THEN [ret |-> hashSz, pkcs7Digest |-> <<>>, plainDigest |-> <<>>]
    ELSE IF signedAttribSz = 0 /\ pkcs7_.content = <<>>
    THEN [ret |-> BAD_FUNC_ARG, pkcs7Digest |-> <<>>, plainDigest |-> <<>>]
    ELSE
    LET digest == IF signedAttribSz > 0
                  THEN Hash(pkcs7_.hashOID,
                            SetImplicit(ASN_SET, 0, signedAttribSz)
                            \o Slice(signedAttrib, 0, signedAttribSz))
                  ELSE Hash(pkcs7_.hashOID, pkcs7_.content)
        algoId == SetAlgoID(pkcs7_.hashOID, oidHashType, 0)
        digestStr == SetOctetString(hashSz)
        digestInfoSeq == SetSequence(Len(algoId) + Len(digestStr) + hashSz)
    IN  [ret |-> 0,
         pkcs7Digest |-> digestInfoSeq \o algoId \o digestStr \o digest,
         plainDigest |-> digest]

\* [ret, pkcs7Digest, plainDigest], without a caller-computed hash
wc_PKCS7_BuildSignedDataDigest(pkcs7_, signedAttrib, signedAttribSz) ==
    LET hashSz == wc_HashGetDigestSize(pkcs7_.hashOID) IN
    IF hashSz < 0
    THEN [ret |-> hashSz, pkcs7Digest |-> <<>>, plainDigest |-> <<>>]
    ELSE IF signedAttribSz = 0 /\ pkcs7_.content = <<>>
    THEN [ret |-> BAD_FUNC_ARG, pkcs7Digest |-> <<>>, plainDigest |-> <<>>]
    ELSE
    LET attribSet == SetSet(signedAttribSz)
        digest == IF signedAttribSz > 0
                  THEN Hash(pkcs7_.hashOID,
                            attribSet \o Slice(signedAttrib, 0, signedAttribSz))
                  ELSE Hash(pkcs7_.hashOID, pkcs7_.content)
        algoId == SetAlgoID(pkcs7_.hashOID, oidHashType, 0)
        digestStr == SetOctetString(hashSz)
        digestInfoSeq == SetSequence(Len(algoId) + Len(digestStr) + hashSz)
    IN  [ret |-> 0,
         pkcs7Digest |-> digestInfoSeq \o algoId \o digestStr \o digest,
         plainDigest |-> digest]

\* wc_PKCS7_SignedDataVerifySignature without the second try of an RSA
\* signature against the bare hash
SignedDataVerifySignature_DigestInfoOnly(pkcs7_, sig, signedAttrib, signedAttribSz) ==
    Value([d \in {wc_PKCS7_BuildSignedDataDigest(pkcs7_, signedAttrib,
                                                 signedAttribSz)} |->
    IF d.ret < 0 THEN [ret |-> d.ret, plainDigest |-> <<>>]
    ELSE IF pkcs7_.publicKeyOID = RSAk
    THEN [ret |-> wc_PKCS7_RsaVerify(pkcs7_, sig, d.pkcs7Digest),
          plainDigest |-> d.plainDigest]
    ELSE IF pkcs7_.publicKeyOID = ECDSAk
    THEN [ret |-> wc_PKCS7_EcdsaVerify(pkcs7_, sig, d.plainDigest),
          plainDigest |-> d.plainDigest]
    ELSE [ret |-> BAD_FUNC_ARG, plainDigest |-> d.plainDigest]])

\* [ret, plainDigest]
wc_PKCS7_SignedDataVerifySignature(pkcs7_, sig, signedAttrib, signedAttribSz) ==
    Value([d \in {wc_PKCS7_BuildSignedDataDigest(pkcs7_, signedAttrib,
                                                 signedAttribSz)} |->
    IF d.ret < 0 THEN [ret |-> d.ret, plainDigest |-> <<>>]
    ELSE IF pkcs7_.publicKeyOID = RSAk
    THEN LET r == wc_PKCS7_RsaVerify(pkcs7_, sig, d.pkcs7Digest) IN
         [ret |-> IF r < 0 THEN wc_PKCS7_RsaVerify(pkcs7_, sig, d.plainDigest)
                  ELSE r,
          plainDigest |-> d.plainDigest]
    ELSE IF pkcs7_.publicKeyOID = ECDSAk
    THEN [ret |-> wc_PKCS7_EcdsaVerify(pkcs7_, sig, d.plainDigest),
          plainDigest |-> d.plainDigest]
    ELSE [ret |-> BAD_FUNC_ARG, plainDigest |-> d.plainDigest]])

\* [ret, p]: ret the public key OID, or negative
wc_PKCS7_SetPublicKeyOID(pkcs7_, sigOID) ==
    IF sigOID = CTC_SHA256wRSA \/ sigOID = RSAk
    THEN [ret |-> RSAk, p |-> [pkcs7_ EXCEPT !.publicKeyOID = RSAk]]
    ELSE IF sigOID = CTC_SHAwDSA \/ sigOID = DSAk
    THEN [ret |-> DSAk, p |-> [pkcs7_ EXCEPT !.publicKeyOID = DSAk]]
    ELSE IF sigOID = CTC_SHA256wECDSA \/ sigOID = ECDSAk
    THEN [ret |-> ECDSAk, p |-> [pkcs7_ EXCEPT !.publicKeyOID = ECDSAk]]
    ELSE [ret |-> ASN_SIG_KEY_E, p |-> [pkcs7_ EXCEPT !.publicKeyOID = 0]]

\* wc_PKCS7_ParseAttribs from index idx of the attribute bytes in:
\* [ret, attribs], ret the number of attributes parsed, attribs the decoded
\* attributes in the order parsed
RECURSIVE ParseAttribsFrom(_, _, _, _)
ParseAttribsFrom(in, idx, inSz, found) ==
    IF idx >= inSz THEN [ret |-> Len(found), attribs |-> found]
    ELSE
    LET s == GetSequence(in, idx, inSz) IN
    IF s.ret < 0 THEN [ret |-> ASN_PARSE_E, attribs |-> found]
    ELSE
    Value([o \in {GetObjectId(in, s.idx, inSz)} |->
    IF o.ret < 0 THEN [ret |-> ASN_PARSE_E, attribs |-> found]
    ELSE
    LET t == GetSet(in, o.idx, inSz) IN
    IF t.ret < 0 \/ inSz - t.idx < t.val
    THEN [ret |-> ASN_PARSE_E, attribs |-> found]
    ELSE ParseAttribsFrom(in, t.idx + t.val, inSz,
             Append(found, [oid |-> Slice(in, s.idx, o.idx - s.idx),
                            value |-> Slice(in, t.idx, t.val)]))])

RECURSIVE Reverse(_)
Reverse(q) == IF q = <<>> THEN <<>> ELSE Append(Reverse(Tail(q)), Head(q))

\* [ret, p]: each attribute parsed is put at the head of decodedAttrib
wc_PKCS7_ParseAttribs(pkcs7_, in, inSz) ==
    Value([r \in {ParseAttribsFrom(Slice(in, 0, inSz), 0, inSz, <<>>)} |->
    [ret |-> r.ret,
     p |-> [pkcs7_ EXCEPT !.decodedAttrib = Reverse(r.attribs) \o @]]])

\* The eContent of the inner ContentInfo, read at idx: [ret, idx, content,
\* pkiMsg2Sz].  A failure leaves idx where it was.
EContentFail(idx, pkiMsgSz) ==
    [ret |-> ASN_PARSE_E, idx |-> idx, content |-> <<>>, pkiMsg2Sz |-> pkiMsgSz,
     multiPart |-> FALSE]

\* a single OCTET STRING at localIdx; start is the index to fall back to
SingleOctetString(m, localIdx, start, totalSz, pkiMsgSz) ==
    IF IntAt(m, localIdx) # ASN_OCTET_STRING THEN EContentFail(start, pkiMsgSz)
    ELSE
    LET l == GetLength(m, localIdx + 1, totalSz) IN
    IF l.ret < 0 THEN EContentFail(start, pkiMsgSz)
    ELSE IF l.val > 0
    THEN [ret |-> 0, idx |-> l.idx + l.val, content |-> Slice(m, l.idx, l.val),
          pkiMsg2Sz |-> pkiMsgSz, multiPart |-> FALSE]
    ELSE [ret |-> 0, idx |-> l.idx, content |-> <<>>, pkiMsg2Sz |-> 0,
          multiPart |-> FALSE]

\* the OCTET STRINGs of a constructed OCTET STRING, from localIdx to end:
\* [ret, idx, content]
RECURSIVE OctetStrings(_, _, _, _, _)
OctetStrings(m, localIdx, end, totalSz, acc) ==
    IF localIdx >= end THEN [ret |-> 0, idx |-> localIdx, content |-> acc]
    ELSE IF IntAt(m, localIdx) # ASN_OCTET_STRING
    THEN [ret |-> ASN_PARSE_E, idx |-> localIdx, content |-> acc]
    ELSE
    LET l == GetLength(m, localIdx + 1, totalSz) IN
    IF l.ret < 0 \/ l.val + l.idx > end
    THEN [ret |-> ASN_PARSE_E, idx |-> localIdx, content |-> acc]
    ELSE OctetStrings(m, l.idx + l.val, end, totalSz,
                      acc \o Slice(m, l.idx, l.val))

ParseEContent(m, idx, totalSz, pkiMsgSz) ==
    IF IntAt(m, idx) # ASN_CONSTRUCTED + ASN_CONTEXT_SPECIFIC
    THEN EContentFail(idx, pkiMsgSz)
    ELSE
    LET l0 == GetLength(m, idx + 1, totalSz) IN
    IF l0.ret <= 0 THEN EContentFail(idx, pkiMsgSz)
    ELSE IF IntAt(m, l0.idx) # ASN_OCTET_STRING + ASN_CONSTRUCTED
    THEN SingleOctetString(m, l0.idx, idx, totalSz, pkiMsgSz)
    ELSE
    LET contentLen == GetLength(m, l0.idx + 1, totalSz) IN
    IF contentLen.ret < 0 THEN EContentFail(idx, pkiMsgSz)
    ELSE
    LET start == contentLen.idx IN
    IF IntAt(m, start) # ASN_OCTET_STRING THEN EContentFail(idx, pkiMsgSz)
    ELSE
    LET l1 == GetLength(m, start + 1, totalSz) IN
    IF l1.ret < 0 THEN EContentFail(idx, pkiMsgSz)
    ELSE IF l1.idx - start + l1.val = contentLen.val
    THEN SingleOctetString(m, start, idx, totalSz, pkiMsgSz)
    ELSE
    Value([parts \in {OctetStrings(m, start, start + contentLen.val, totalSz, <<>>)} |->
        IF parts.ret # 0
        THEN [EContentFail(idx, pkiMsgSz) EXCEPT !.multiPart = TRUE,
                                                 !.content = parts.content]
        ELSE [ret |-> 0, idx |-> parts.idx, content |-> parts.content,
              pkiMsg2Sz |-> IF Len(parts.content) > 0 THEN pkiMsgSz ELSE 0,
              multiPart |-> TRUE]])

\* the certificates after the first: [ret, cert], cert the array of the
\* structure
RECURSIVE MoreCerts(_, _, _, _, _)
MoreCerts(m, certIdx, i, cert, pkiMsg2Sz) ==
    IF ~(i < MAX_PKCS7_CERTS /\ certIdx + 1 < pkiMsg2Sz)
    THEN [ret |-> 0, cert |-> cert]
    ELSE IF IntAt(m, certIdx) # ASN_CONSTRUCTED + ASN_SEQUENCE
    THEN MoreCerts(m, certIdx + 1, i + 1, cert, pkiMsg2Sz)
    ELSE
    LET sz == GetLength(m, certIdx + 1, pkiMsg2Sz) IN
    IF sz.ret < 0 THEN [ret |-> ASN_PARSE_E, cert |-> cert]
    ELSE MoreCerts(m, sz.idx + sz.val, i + 1,
                   [cert EXCEPT ![i + 1] =
                        Slice(m, certIdx, sz.val + (sz.idx - certIdx))],
                   pkiMsg2Sz)

\* a rebinding that keeps nothing but what wc_PKCS7_InitWithCert keeps
RebindToCert_NoRestore(pkcs7_, cert) == wc_PKCS7_InitWithCert(pkcs7_, cert).p

\* the structure is reset and bound to the first certificate of the message;
\* der and contentDynamic are saved before and put back after
RebindToCert(pkcs7_, cert) ==
    [wc_PKCS7_InitWithCert(pkcs7_, cert).p
        EXCEPT !.contentDynamic = pkcs7_.contentDynamic,
               !.der = pkcs7_.der]

\* the IMPLICIT [0] set of certificates at idx: [ret, p, idx]
ParseCertificates(pkcs7_, m, idx, pkiMsg2Sz) ==
    IF IntAt(m, idx) # ASN_CONSTRUCTED + ASN_CONTEXT_SPECIFIC
    THEN [ret |-> 0, p |-> pkcs7_, idx |-> idx]
    ELSE
    LET l == GetLength(m, idx + 1, pkiMsg2Sz) IN
    IF l.ret < 0 THEN [ret |-> ASN_PARSE_E, p |-> pkcs7_, idx |-> idx]
    ELSE IF l.val = 0 THEN [ret |-> 0, p |-> pkcs7_, idx |-> l.idx]
    ELSE
    LET isSeq == IntAt(m, l.idx) = ASN_CONSTRUCTED + ASN_SEQUENCE
        c == GetLength(m, l.idx + 1, pkiMsg2Sz)
    IN
    IF isSeq /\ c.ret < 0 THEN [ret |-> ASN_PARSE_E, p |-> pkcs7_, idx |-> idx]
    ELSE
    LET certSz == IF isSeq THEN c.val + (c.idx - l.idx) ELSE 0
    IN
    Value([cert \in {IF isSeq THEN Slice(m, l.idx, certSz) ELSE <<>>} |->
    LET reset == RebindToCert(pkcs7_, cert)
    IN
    Value([first \in {[reset EXCEPT !.cert[1] = cert]} |->
    Value([more \in {MoreCerts(m, l.idx + certSz, 1, first.cert, pkiMsg2Sz)} |->
        IF more.ret < 0
        THEN [ret |-> ASN_PARSE_E, p |-> [first EXCEPT !.cert = more.cert],
              idx |-> idx]
        ELSE [ret |-> 0, p |-> [first EXCEPT !.cert = more.cert],
              idx |-> l.idx + l.val]])])])

\* What a verification gives: the return value, the structure after the
\* call and, for the properties, the SignerInfo fields parsed in the order the
\* code parsed them, the signed attribute bytes and signature it located and
\* the digest it computed.
VerifyResult(code, pkcs7_, trace, signedAttrib, sig, plainDigest) ==
    [ret |-> code, p |-> pkcs7_, trace |-> trace,
     signedAttrib |-> signedAttrib, sig |-> sig, plainDigest |-> plainDigest]

VerifyFail(code, pkcs7_, trace) ==
    VerifyResult(code, pkcs7_, trace, <<>>, <<>>, <<>>)

\* the signer identifier of a version 3 SignerInfo: [idx], parse failures
\* are recorded in ret of the caller and not returned; length is the value
\* the variable holds when the branch is entered
SkipSubjectKeyIdentifier(m, idx, length, pkiMsgSz) ==
    IF IntAt(m, idx) # ASN_CONSTRUCTED + ASN_CONTEXT_SPECIFIC
    THEN [idx |-> idx + 1 + length]
    ELSE
    LET l0 == GetLength(m, idx + 1, pkiMsgSz) IN
    IF l0.ret <= 0 THEN [idx |-> l0.idx + l0.val]
    ELSE IF IntAt(m, l0.idx) # ASN_OCTET_STRING
    THEN [idx |-> l0.idx + 1 + l0.val]
    ELSE LET l1 == GetLength(m, l0.idx + 1, pkiMsgSz) IN
         [idx |-> l1.idx + l1.val]

\* the first SignerInfo, from the digestAlgorithm on
VerifySignerInfoTail(pkcs7_, m, idx, pkiMsg2Sz, content, trace) ==
    Value([h1 \in {GetAlgoId(m, idx, pkiMsg2Sz)} |->
    IF h1.ret < 0 THEN VerifyFail(ASN_PARSE_E, pkcs7_, trace)
    ELSE
    LET p1 == [pkcs7_ EXCEPT !.hashOID = h1.val]
        t1 == Append(trace, "digestAlgorithm")
        s2 == GetSequence(m, h1.idx, pkiMsg2Sz)
    IN
    IF s2.ret < 0 THEN VerifyFail(ASN_PARSE_E, p1, t1)
    ELSE
    LET t2 == Append(t1, "IssuerAndSerialNumber")
    IN
    Value([h2 \in {GetAlgoId(m, s2.idx + s2.val, pkiMsg2Sz)} |->
    IF h2.ret < 0 THEN VerifyFail(ASN_PARSE_E, p1, t2)
    ELSE
    LET p2 == [p1 EXCEPT !.hashOID = h2.val]
        t3 == Append(t2, "digestAlgorithm")
        hasAttribs == IntAt(m, h2.idx) = ASN_CONSTRUCTED + ASN_CONTEXT_SPECIFIC
        al == GetLength(m, h2.idx + 1, pkiMsg2Sz)
    IN
    IF hasAttribs /\ al.ret < 0 THEN VerifyFail(ASN_PARSE_E, p2, t3)
    ELSE
    LET signedAttribSz == IF hasAttribs THEN al.val ELSE 0
        signedAttrib == IF hasAttribs THEN Slice(m, al.idx, al.val) ELSE <<>>
    IN
    Value([pa \in {IF hasAttribs
                   THEN wc_PKCS7_ParseAttribs(p2, signedAttrib, signedAttribSz)
                   ELSE [ret |-> 0, p |-> p2]} |->
    LET t4 == IF hasAttribs THEN Append(t3, "signedAttributes") ELSE t3
    IN
    IF pa.ret < 0 THEN VerifyFail(ASN_PARSE_E, pa.p, t3)
    ELSE
    LET idx4 == IF hasAttribs THEN al.idx + al.val ELSE h2.idx
    IN
    Value([sa \in {GetAlgoId(m, idx4, pkiMsg2Sz)} |->
    IF sa.ret < 0 THEN VerifyFail(ASN_PARSE_E, pa.p, t4)
    ELSE
    LET t5 == Append(t4, "digestEncryptionAlgorithm")
        pk == wc_PKCS7_SetPublicKeyOID(pa.p, sa.val)
    IN
    IF pk.ret <= 0 THEN VerifyFail(pk.ret, pk.p, t5)
    ELSE
    LET hasSig == IntAt(m, sa.idx) = ASN_OCTET_STRING
        sl == GetLength(m, sa.idx + 1, pkiMsg2Sz)
    IN
    IF hasSig /\ sl.ret < 0 THEN VerifyFail(ASN_PARSE_E, pk.p, t5)
    ELSE
    LET sig == IF hasSig THEN Slice(m, sl.idx, sl.val) ELSE <<>>
        t6 == IF hasSig THEN Append(t5, "signature") ELSE t5
        p6 == [pk.p EXCEPT !.content = content]
    IN
    Value([v \in {wc_PKCS7_SignedDataVerifySignature(p6, sig, signedAttrib,
                                                     signedAttribSz)} |->
        VerifyResult(IF v.ret < 0 THEN v.ret ELSE 0, p6, t6, signedAttrib,
                     sig, v.plainDigest)])])])])])

\* the first SignerInfo at idx
VerifySignerInfo(pkcs7_, m, idx, pkiMsgSz, pkiMsg2Sz, content) ==
    LET s == GetSequence(m, idx, pkiMsg2Sz) IN
    IF s.ret < 0 THEN VerifyFail(ASN_PARSE_E, pkcs7_, <<>>)
    ELSE
    LET ver == GetMyVersion(m, s.idx, pkiMsg2Sz) IN
    IF ver.ret < 0 THEN VerifyFail(ASN_PARSE_E, pkcs7_, <<>>)
    ELSE IF ver.val = 1
    THEN LET sid == GetSequence(m, ver.idx, pkiMsgSz) IN
         IF sid.ret < 0 THEN VerifyFail(ASN_PARSE_E, pkcs7_, <<"version">>)
         ELSE VerifySignerInfoTail(pkcs7_, m, sid.idx + sid.val, pkiMsg2Sz,
                                   content,
                                   <<"version", "IssuerAndSerialNumber">>)
    ELSE IF ver.val = 3
    THEN VerifySignerInfoTail(pkcs7_, m,
             SkipSubjectKeyIdentifier(m, ver.idx, s.val, pkiMsgSz).idx,
             pkiMsg2Sz, content, <<"version", "SubjectKeyIdentifier">>)
    ELSE VerifyFail(ASN_VERSION_E, pkcs7_, <<"version">>)

\* asn.c wc_BerToDer on a message whose outermost length is indefinite: the
\* length is made definite and the end-of-contents octets are dropped
wc_BerToDer(ber, berSz) ==
    IF \/ berSz < 4
       \/ IntAt(ber, 1) # ASN_INDEF_LENGTH
       \/ IntAt(ber, berSz - 2) # 0
       \/ IntAt(ber, berSz - 1) # 0
    THEN [ret |-> ASN_PARSE_E, der |-> <<>>]
    ELSE [ret |-> 0,
          der |-> <<ber[1], <<berSz - 4>>>> \o Slice(ber, 2, berSz - 4)]

\* PKCS7_VerifySignedData without a caller-computed hash and without a
\* second buffer.  tail is the memory that follows the message: the code
\* reads pkiMsg[idx] in places without comparing idx to the message size.
\* An indefinite outermost length takes the wc_BerToDer path (ASN_BER_TO_DER).
PKCS7_VerifySignedData(pkcs7_, pkiMsg, pkiMsgSz, tail) ==
    IF pkiMsg = <<>> \/ pkiMsgSz = 0 THEN VerifyFail(BAD_FUNC_ARG, pkcs7_, <<>>)
    ELSE
    LET m0 == pkiMsg \o tail
        totalSz == pkiMsgSz
        ci0 == GetSequence(m0, 0, totalSz)
    IN
    IF ci0.ret < 0 THEN VerifyFail(ASN_PARSE_E, pkcs7_, <<>>)
    ELSE
    LET ber == ci0.val = 0 /\ IntAt(m0, ci0.idx - 1) = ASN_INDEF_LENGTH
        conv == IF ber THEN wc_BerToDer(pkiMsg, pkiMsgSz)
                ELSE [ret |-> 0, der |-> <<>>]
    IN
    IF ber /\ conv.ret < 0 THEN VerifyFail(conv.ret, pkcs7_, <<>>)
    ELSE
    LET p0 == IF ber THEN [pkcs7_ EXCEPT !.der = conv.der] ELSE pkcs7_
        m == IF ber THEN conv.der \o tail ELSE m0
        msgSz == IF ber THEN Len(conv.der) ELSE pkiMsgSz
        ci == GetSequence(m, 0, msgSz)
    IN
    IF ci.ret < 0 THEN VerifyFail(ASN_PARSE_E, p0, <<>>)
    ELSE
    Value([outerContentType \in {GetObjectId(m, ci.idx, msgSz)} |->
    IF outerContentType.ret < 0 THEN VerifyFail(ASN_PARSE_E, p0, <<>>)
    ELSE IF outerContentType.val # SIGNED_DATA
    THEN VerifyFail(PKCS7_OID_E, p0, <<>>)
    ELSE IF IntAt(m, outerContentType.idx)
                # ASN_CONSTRUCTED + ASN_CONTEXT_SPECIFIC
    THEN VerifyFail(ASN_PARSE_E, p0, <<>>)
    ELSE
    LET cl == GetLength(m, outerContentType.idx + 1, totalSz) IN
    IF cl.ret < 0 THEN VerifyFail(ASN_PARSE_E, p0, <<>>)
    ELSE
    LET sd == GetSequence(m, cl.idx, totalSz) IN
    IF sd.ret < 0 THEN VerifyFail(ASN_PARSE_E, p0, <<>>)
    ELSE
    LET ver == GetMyVersion(m, sd.idx, msgSz) IN
    IF ver.ret < 0 THEN VerifyFail(ASN_PARSE_E, p0, <<>>)
    ELSE IF ver.val # 1 THEN VerifyFail(ASN_VERSION_E, p0, <<>>)
    ELSE
    Value([da \in {GetSet(m, ver.idx, msgSz)} |->
    IF da.ret < 0 THEN VerifyFail(ASN_PARSE_E, p0, <<>>)
    ELSE
    LET degenerate == IF da.val = 0 THEN 1 ELSE 0 IN
    IF p0.noDegenerate = 1 /\ degenerate = 1
    THEN VerifyFail(PKCS7_NO_SIGNER_E, p0, <<>>)
    ELSE
    LET eci == GetSequence(m, da.idx + da.val, totalSz) IN
    IF eci.ret < 0 THEN VerifyFail(ASN_PARSE_E, p0, <<>>)
    ELSE
    Value([ct \in {GetASNObjectId(m, eci.idx, msgSz)} |->
    IF ct.ret # 0 THEN VerifyFail(ASN_PARSE_E, p0, <<>>)
    ELSE
    LET contentTypeSz == ct.val + (ct.idx - eci.idx)
        contentType == Slice(m, eci.idx, contentTypeSz)
    IN
    Value([ec \in {ParseEContent(m, ct.idx + ct.val, totalSz, msgSz)} |->
    LET pe == IF ec.multiPart THEN [p0 EXCEPT !.contentDynamic = ec.content]
              ELSE p0
    IN
    IF degenerate = 0 /\ ec.ret # 0 THEN VerifyFail(ec.ret, pe, <<>>)
    ELSE
    LET pkiMsg2Sz == ec.pkiMsg2Sz
    IN
    Value([certs \in {ParseCertificates(pe, m, ec.idx, pkiMsg2Sz)} |->
    IF certs.ret < 0 THEN VerifyFail(certs.ret, certs.p, <<>>)
    ELSE
    LET p1 == [certs.p EXCEPT !.content = ec.content]
    IN
    Value([sct \in {wc_PKCS7_SetContentType(p1, contentType, contentTypeSz)} |->
    IF sct.ret < 0 THEN VerifyFail(ASN_PARSE_E, p1, <<>>)
    ELSE
    LET hasCrls == IntAt(m, certs.idx)
                       = ASN_CONSTRUCTED + ASN_CONTEXT_SPECIFIC + 1
        crl == GetLength(m, certs.idx + 1, pkiMsg2Sz)
    IN
    IF hasCrls /\ crl.ret < 0 THEN VerifyFail(ASN_PARSE_E, sct.p, <<>>)
    ELSE
    LET si == GetSet(m, IF hasCrls THEN crl.idx + crl.val ELSE certs.idx,
                     pkiMsg2Sz)
    IN
    IF si.ret < 0 THEN VerifyFail(ASN_PARSE_E, sct.p, <<>>)
    ELSE IF si.val = 0 /\ sct.p.noDegenerate = 1
    THEN VerifyFail(PKCS7_NO_SIGNER_E, sct.p, <<>>)
    ELSE IF degenerate = 0 /\ si.val = 0
    THEN VerifyFail(PKCS7_NO_SIGNER_E, sct.p, <<>>)
    ELSE IF si.val > 0 /\ degenerate = 0
    THEN VerifySignerInfo(sct.p, m, si.idx, msgSz, pkiMsg2Sz, ec.content)
    ELSE VerifyFail(0, sct.p, <<>>)])])])])])])

wc_PKCS7_VerifySignedData(pkcs7_, pkiMsg, pkiMsgSz, tail) ==
    PKCS7_VerifySignedData(pkcs7_, pkiMsg, pkiMsgSz, tail)

----------------------------------------------------------------------------
(* Decoded attributes and the Data content type.                           *)

\* findAttrib: the place in decodedAttrib of the first attribute whose OID
\* agrees with oid in the first min(oidSz, length) cells, 0 for NULL
RECURSIVE findAttribFrom(_, _, _, _)
findAttribFrom(list, i, oid, oidSz) ==
    IF i > Len(list) THEN 0
    ELSE IF IntAt(list[i].oid, 0) # ASN_OBJECT_ID THEN 0
    ELSE
    LET l == GetLength(list[i].oid, 1, Len(list[i].oid)) IN
    IF l.ret < 0 THEN 0
    ELSE
    LET sz == min(oidSz, l.val) IN
    IF Slice(oid, 0, sz) = Slice(list[i].oid, l.idx, sz) THEN i
    ELSE findAttribFrom(list, i + 1, oid, oidSz)

findAttrib(pkcs7_, oid, oidSz) ==
    findAttribFrom(pkcs7_.decodedAttrib, 1, oid, oidSz)

\* a lookup that copies what fits before it finds the buffer too small
GetAttributeValue_CopyFirst(pkcs7_, oid, oidSz, hasOut, outSz) ==
    LET attrib == findAttrib(pkcs7_, oid, oidSz) IN
    IF attrib = 0 THEN [ret |-> ASN_PARSE_E, out |-> <<>>, outSz |-> outSz]
    ELSE
    LET value == pkcs7_.decodedAttrib[attrib].value IN
    IF ~hasOut
    THEN [ret |-> LENGTH_ONLY_E, out |-> <<>>, outSz |-> Len(value)]
    ELSE IF outSz < Len(value)
    THEN [ret |-> BUFFER_E, out |-> Slice(value, 0, outSz), outSz |-> outSz]
    ELSE [ret |-> Len(value), out |-> value, outSz |-> outSz]

\* wc_PKCS7_GetAttributeValue: [ret, out, outSz], out the cells copied to
\* the caller's buffer and outSz the value of *outSz at the return; hasOut
\* is FALSE for a NULL out
wc_PKCS7_GetAttributeValue(pkcs7_, oid, oidSz, hasOut, outSz) ==
    LET attrib == findAttrib(pkcs7_, oid, oidSz) IN
    IF attrib = 0 THEN [ret |-> ASN_PARSE_E, out |-> <<>>, outSz |-> outSz]
    ELSE
    LET value == pkcs7_.decodedAttrib[attrib].value IN
    IF ~hasOut
    THEN [ret |-> LENGTH_ONLY_E, out |-> <<>>, outSz |-> Len(value)]
    ELSE IF outSz < Len(value)
    THEN [ret |-> BUFFER_E, out |-> <<>>, outSz |-> outSz]
    ELSE [ret |-> Len(value), out |-> value, outSz |-> outSz]

\* wc_PKCS7_EncodeData: [ret, out]
wc_PKCS7_EncodeData(pkcs7_, outputSz) ==
    LET oid == SetObjectId(DATA)
        contentSz == Len(pkcs7_.content)
        octetStr == SetOctetString(contentSz)
        seq == SetSequence(contentSz + Len(octetStr) + Len(oid))
    IN  IF outputSz < contentSz + Len(octetStr) + Len(oid) + Len(seq)
        THEN [ret |-> BUFFER_E, out |-> <<>>]
        ELSE [ret |-> Len(seq) + Len(oid) + Len(octetStr) + contentSz,
              out |-> seq \o oid \o octetStr \o pkcs7_.content]

----------------------------------------------------------------------------
(* PKCS#7 padding.                                                         *)

\* a pad size that is 0 on aligned input
GetPadSize_NoFullBlock(inputSz, blockSz) ==
    IF blockSz = 0 THEN BAD_FUNC_ARG
    ELSE (blockSz - (inputSz % blockSz)) % blockSz

wc_PKCS7_GetPadSize(inputSz, blockSz) ==
    IF blockSz = 0 THEN BAD_FUNC_ARG
    ELSE blockSz - (inputSz % blockSz)

\* outSz < (inSz + padSz), evaluated in word32: a negative padSz wraps the
\* sum to at least 2^32 - 173 unless inSz makes it wrap again to a small value
PadSumExceeds(outSz, inSz, padSz) ==
    IF inSz + padSz < 0 THEN TRUE ELSE outSz < inSz + padSz

\* the result: the return value and the bytes written to out
wc_PKCS7_PadData(in, inSz, outSz, blockSz) ==
    IF inSz = 0 \/ outSz = 0 THEN [ret |-> BAD_FUNC_ARG, out |-> <<>>]
    ELSE LET padSz == wc_PKCS7_GetPadSize(inSz, blockSz) IN
         IF PadSumExceeds(outSz, inSz, padSz)
         THEN [ret |-> BAD_FUNC_ARG, out |-> <<>>]
         ELSE [ret |-> inSz + padSz,
               out |-> SubSeq(in, 1, inSz) \o Repeat(Byte(padSz), padSz)]

----------------------------------------------------------------------------
(* The pad specification: the arguments are drawn, then the call is made.  *)

NoMem == [state |-> "none"]

\* the output sizes tried for an input: one short of the padded size, and up
PadOutSz(inSz, blockSz, slack) ==
    LET need == inSz + blockSz - (IF blockSz = 0 THEN 0 ELSE inSz % blockSz)
    IN  IF need - 1 + slack < 0 THEN 0 ELSE need - 1 + slack

PadArgs ==
    {[op |-> "args", in |-> i, blockSz |-> b,
      outSz |-> PadOutSz(Len(i), b, s)] :
        i \in SeqsUpTo(PadBytes, MaxInSz), b \in BlockSizes, s \in OutSlack}

InitPad ==
    /\ pkcs7 = NoSession
    /\ wire = <<>>
    /\ ret = 0
    /\ out = <<>>
    /\ mem = NoMem
    /\ call \in PadArgs

PadData ==
    /\ call.op = "args"
    /\ LET r == wc_PKCS7_PadData(call.in, Len(call.in), call.outSz, call.blockSz)
       IN /\ ret' = r.ret
          /\ out' = r.out
    /\ call' = [call EXCEPT !.op = "wc_PKCS7_PadData"]
    /\ UNCHANGED <<pkcs7, wire, mem>>

NextPad == PadData

SpecPad == InitPad /\ [][NextPad]_vars

----------------------------------------------------------------------------
(* The SignedData specification: a signer is set up and encodes; the       *)
(* message, as encoded, changed in one cell, or made by a peer, is handed  *)
(* to a receiver, which verifies it.                                       *)

RsaCert == Cert(1, 1, RSAk, 1, 1)
EccCert == Cert(2, 1, ECDSAk, 2, 2)
SignerCerts == {RsaCert, EccCert}

\* the i-th attribute of the caller
CallerAttrib(i) ==
    [oid |-> SetObjectId(100 + i),
     value |-> <<<<ASN_OCTET_STRING>>, <<1>>, <<i>>>>]

NoVerify == [ret |-> 0, trace |-> <<>>, signedAttrib |-> <<>>, sig |-> <<>>,
             plainDigest |-> <<>>]

SignedMem ==
    [origin |-> "none", cert |-> <<>>, esd |-> NoEsd, content |-> <<>>,
     callerAttribs |-> <<>>, stack |-> "intact", tampered |-> -1,
     reshaped |-> FALSE, receiverCert |-> <<>>, allow |-> -1,
     verify |-> NoVerify]

InitSigned ==
    /\ pkcs7 = NoSession
    /\ wire = <<>>
    /\ ret = 0
    /\ out = <<>>
    /\ mem = SignedMem
    /\ call = [op |-> "start"]

\* wc_PKCS7_InitWithCert on the signer certificate, then the fields the
\* application sets before it encodes
SignerInit ==
    /\ call.op = "start"
    /\ \E cert \in SignerCerts, content \in SignedContents,
          n \in 0..MaxCallerAttribs,
          type \in {SID_ISSUER_AND_SERIAL_NUMBER, SID_SUBJECT_KEY_IDENTIFIER} :
         LET i == wc_PKCS7_InitWithCert(wc_PKCS7_Init(0, INVALID_DEVID), cert)
             app == [i.p EXCEPT !.content = content,
                                !.contentOID = DATA,
                                !.hashOID = SHA256h,
                                !.encryptOID = i.p.publicKeyOID,
                                !.privateKey = i.p.publicKey,
                                !.rng = 1,
                                !.signedAttribs =
                                    [k \in 1..n |-> CallerAttrib(k)]]
             t == wc_PKCS7_SetSignerIdentifierType(app, type)
         IN /\ pkcs7' = t.p
            /\ ret' = t.ret
            /\ mem' = [mem EXCEPT !.content = content, !.cert = cert,
                                  !.callerAttribs = app.signedAttribs]
    /\ call' = [op |-> "signer"]
    /\ UNCHANGED <<wire, out>>

\* what may lie after the signedAttribs array of the ESD
AdjacentAttribs ==
    {ZeroAttrib,
     [valueSeq |-> <<<<85>>>>, oid |-> <<>>, valueSet |-> <<>>,
      value |-> <<>>, totalSz |-> 1]}

EncodeSignedData ==
    /\ call.op = "signer"
    /\ \E outputSz \in OutputSizes, stack \in {"intact", "clobbered"},
          adjacent \in AdjacentAttribs :
         \E r \in {wc_PKCS7_EncodeSignedData(pkcs7, outputSz, stack,
                                              adjacent)} :
            /\ ret' = r.ret
            /\ out' = r.out
            /\ wire' = r.out
            /\ pkcs7' = r.p
            /\ mem' = [mem EXCEPT !.origin = "encoder", !.esd = r.esd,
                                  !.stack = stack]
    /\ call' = [op |-> "wc_PKCS7_EncodeSignedData"]

\* a peer's message with the SignerInfo layout the verifier reads: the
\* encoder's message with a SEQUENCE and a second digestAlgorithm put after
\* the digestAlgorithm, the enclosing lengths grown to hold them
PeerSignerInfo(w, esd) ==
    LET ins == SetSequence(0) \o esd.signerDigAlgoId
        grown == {2, 7, 9, esd.signerIdx + 2, esd.signerIdx + 4}
        at == esd.attribIdx
    IN  [i \in 1..(Len(w) + Len(ins)) |->
            IF i <= at
            THEN IF i \in grown THEN <<IntOf(w[i]) + Len(ins)>> ELSE w[i]
            ELSE IF i <= at + Len(ins) THEN ins[i - at]
            ELSE w[i - Len(ins)]]

PeerSignedData ==
    /\ call.op = "wc_PKCS7_EncodeSignedData"
    /\ ret > 0
    /\ wire' = PeerSignerInfo(wire, mem.esd)
    /\ mem' = [mem EXCEPT !.origin = "peer", !.reshaped = TRUE]
    /\ call' = [op |-> "peer"]
    /\ UNCHANGED <<pkcs7, ret, out>>

\* a SignedData without signers: digestAlgorithms and signerInfos empty,
\* eContent absent, empty or present, nCerts certificates
DegenerateSignedData(eContent, nCerts) ==
    LET content == IF eContent = "absent" THEN <<>>
                   ELSE IF eContent = "empty"
                   THEN SetExplicit(0, 2) \o SetOctetString(0)
                   ELSE SetExplicit(0, 3) \o SetOctetString(1) \o <<<<7>>>>
        contentInfo == SetSequence(3 + Len(content)) \o SetObjectId(DATA)
                       \o content
        certs == IF nCerts = 0 THEN <<>>
                 ELSE IF nCerts = 1 THEN RsaCert
                 ELSE RsaCert \o EccCert
        certsSet == IF nCerts = 0 THEN <<>>
                    ELSE SetImplicit(ASN_SET, 0, Len(certs)) \o certs
        inner == SetMyVersion(1) \o SetSet(0) \o contentInfo \o certsSet
                 \o SetSet(0)
        innerSeq == SetSequence(Len(inner)) \o inner
        outerContent == SetExplicit(0, Len(innerSeq)) \o innerSeq
    IN  SetSequence(3 + Len(outerContent)) \o SetObjectId(SIGNED_DATA)
        \o outerContent

PeerDegenerate ==
    /\ call.op = "start"
    /\ \E eContent \in {"absent", "empty", "present"}, nCerts \in 0..2 :
         /\ wire' = DegenerateSignedData(eContent, nCerts)
         /\ mem' = [mem EXCEPT !.origin = "degenerate", !.cert = RsaCert,
                               !.content = IF eContent = "present"
                                           THEN <<<<7>>>> ELSE <<>>]
    /\ call' = [op |-> "peer"]
    /\ UNCHANGED <<pkcs7, ret, out>>

\* one cell of the message, from the first cell of eContent to the last
\* cell of the signature, is changed in transit
Tamper ==
    /\ call.op \in {"wc_PKCS7_EncodeSignedData", "peer"}
    /\ mem.origin \in {"encoder", "peer"}
    /\ mem.tampered = -1
    /\ ret > 0
    /\ \E i \in (mem.esd.contentIdx + 1)..Len(wire), c \in TamperCells :
         /\ wire[i] # c
         /\ wire' = [wire EXCEPT ![i] = c]
         /\ mem' = [mem EXCEPT !.tampered = i]
    /\ call' = [op |-> "tamper"]
    /\ UNCHANGED <<pkcs7, ret, out>>

\* the receiver: a new structure, with a certificate or without
ReceiverInit ==
    /\ call.op \in {"wc_PKCS7_EncodeSignedData", "peer", "tamper"}
    /\ wire # <<>>
    /\ \E cert \in {<<>>, mem.cert} :
         LET i == wc_PKCS7_InitWithCert(wc_PKCS7_Init(0, INVALID_DEVID), cert)
         IN /\ pkcs7' = i.p
            /\ ret' = i.ret
            /\ mem' = [mem EXCEPT !.allow = -1, !.receiverCert = cert]
    /\ call' = [op |-> "receiver"]
    /\ UNCHANGED <<wire, out>>

AllowDegenerate ==
    /\ call.op = "receiver"
    /\ \E flag \in {0, 1} :
         /\ pkcs7' = wc_PKCS7_AllowDegenerate(pkcs7, flag)
         /\ mem' = [mem EXCEPT !.allow = flag]
    /\ UNCHANGED <<wire, ret, out, call>>

VerifySignedData ==
    /\ call.op = "receiver"
    /\ \E tail \in Tails :
         \E r \in {wc_PKCS7_VerifySignedData(pkcs7, wire, Len(wire), tail)} :
            /\ ret' = r.ret
            /\ pkcs7' = r.p
            /\ mem' = [mem EXCEPT !.verify =
                          [ret |-> r.ret, trace |-> r.trace,
                           signedAttrib |-> r.signedAttrib, sig |-> r.sig,
                           plainDigest |-> r.plainDigest]]
    /\ call' = [op |-> "wc_PKCS7_VerifySignedData"]
    /\ UNCHANGED <<wire, out>>

NextSigned ==
    \/ SignerInit
    \/ EncodeSignedData
    \/ PeerSignedData
    \/ Tamper
    \/ ReceiverInit
    \/ VerifySignedData

SpecSigned == InitSigned /\ [][NextSigned]_vars

\* the degenerate specification: a message without signers reaches a
\* receiver, which sets its policy and verifies
NextDegenerate ==
    \/ PeerDegenerate
    \/ ReceiverInit
    \/ AllowDegenerate
    \/ VerifySignedData

SpecDegenerate == InitSigned /\ [][NextDegenerate]_vars

----------------------------------------------------------------------------
(* EnvelopedData: constants and primitives.  A key is one symbolic cell;   *)
(* the size the C code carries beside it is a number.  An encrypted key is *)
(* one cell, an IV is blockSz cells, a ciphertext has a cell per plaintext *)
(* cell.                                                                   *)

ASN_BIT_STRING == 3
AES128_WRAP == 417
dhSinglePass_stdDH_sha256kdf_scheme == 189
AES_BLOCK_SIZE == 16
DES_BLOCK_SIZE == 8
DES3_KEYLEN == 24
BAD_KEYWRAP_ALG_E == -239
BAD_KEYWRAP_IV_E == -240
RSA_PAD_E == -201
RNG_FAILURE_E == -199
AES_ENCRYPTION == 0
AES_DECRYPTION == 1
WC_PKCS7_ENCODE == 0
WC_PKCS7_DECODE == 1
MAX_RECIP_SZ == 512

\* what a buffer that is meant to hold a secret holds when the function
\* that owns it returns or frees it
Unused == "unused"
Live == "live"
Zeroed == "zeroed"

\* wc_PKCS7_GetOIDBlockSize
wc_PKCS7_GetOIDBlockSize(oid) ==
    IF oid = AES128CBCb THEN AES_BLOCK_SIZE
    ELSE IF oid = DES3b THEN DES_BLOCK_SIZE
    ELSE ALGO_ID_E

\* wc_PKCS7_GetOIDKeySize
wc_PKCS7_GetOIDKeySize(oid) ==
    IF oid = AES128CBCb \/ oid = AES128_WRAP THEN 16
    ELSE IF oid = DES3b THEN DES3_KEYLEN
    ELSE ALGO_ID_E

\* wc_RNG_GenerateBlock: the content-encryption key, the IV
RngKey == <<-11, 1>>

RngIv(ivSz) == [i \in 1..ivSz |-> <<-12, i>>]

\* the key pair wc_ecc_make_key_ex generates
EphemeralKey == 6

\* wc_ecc_export_x963 / wc_ecc_import_x963: a public key as one cell
wc_ecc_export_x963(key) == <<<<-6, key>>>>

\* [ret, key]
wc_ecc_import_x963(in) ==
    IF Len(in) = 1 /\ Len(in[1]) = 2 /\ in[1][1] = -6
    THEN [ret |-> 0, key |-> in[1][2]]
    ELSE [ret |-> ASN_PARSE_E, key |-> 0]

\* wc_EccPublicKeyDecode / wc_EccPrivateKeyDecode: 0 for an ECC key
wc_EccKeyDecode(key) == IF key \in EccKeys THEN 0 ELSE ASN_PARSE_E

\* wc_RsaPublicKeyDecode / wc_RsaPrivateKeyDecode: 0 for an RSA key
wc_RsaKeyDecode(key) == IF key \in RsaKeys THEN 0 ELSE ASN_PARSE_E

\* wc_ecc_shared_secret: the ECDH secret of a private and a public key
wc_ecc_shared_secret(private, public) ==
    <<-7, min(private, public), private + public - min(private, public)>>

\* wc_X963_KDF: the key derived from a secret and the shared info
wc_X963_KDF(secret, sharedInfo) == <<-14>> \o secret \o Flat(sharedInfo)

\* wc_RsaPublicEncrypt of a key cell: one cell
wc_RsaPublicEncrypt(in, pubKey) == <<-8, pubKey>> \o in

\* wc_RsaPrivateDecryptInline: [ret, out], ret the size of the key in cells
wc_RsaPrivateDecryptInline(in, privKey) ==
    IF Len(in) > 2 /\ in[1] = -8 /\ in[2] = privKey
    THEN [ret |-> 1, out |-> SubSeq(in, 3, Len(in))]
    ELSE [ret |-> RSA_PAD_E, out |-> <<>>]

\* wc_AesKeyWrap of a key cell under a key-encryption key: one cell
wc_AesKeyWrap(kek, cek) == <<-13, Len(kek)>> \o kek \o cek

\* wc_AesKeyUnWrap: [ret, out]; the integrity check fails under another key
wc_AesKeyUnWrap(kek, in) ==
    LET head == <<-13, Len(kek)>> \o kek IN
    IF Len(in) > Len(head) /\ SubSeq(in, 1, Len(head)) = head
    THEN [ret |-> 1, out |-> SubSeq(in, Len(head) + 1, Len(in))]
    ELSE [ret |-> BAD_KEYWRAP_IV_E, out |-> <<>>]

\* the head of a cipher cell: the key and the IV it was made under
CipherHead(key, iv) == <<-9, Len(key)>> \o key \o Flat(iv)

\* wc_AesCbcEncrypt / wc_Des3_CbcEncrypt: a cell per plaintext cell
CbcEncrypt(key, iv, in) ==
    [i \in 1..Len(in) |-> CipherHead(key, iv) \o in[i]]

\* wc_AesCbcDecrypt / wc_Des3_CbcDecrypt: the plaintext under the right key
\* and IV, other cells under a wrong one
CbcDecrypt(key, iv, in) ==
    LET head == CipherHead(key, iv) IN
    [i \in 1..Len(in) |->
        IF Len(in[i]) > Len(head) /\ SubSeq(in[i], 1, Len(head)) = head
        THEN SubSeq(in[i], Len(head) + 1, Len(in[i]))
        ELSE <<-10>> \o in[i]]

\* wc_PKCS7_EncryptContent: [ret, out]; fails stands for a failure of the
\* cipher itself
wc_PKCS7_EncryptContent(encryptOID, key, keySz, iv, ivSz, in, fails) ==
    IF encryptOID \notin {AES128CBCb, DES3b}
    THEN [ret |-> ALGO_ID_E, out |-> <<>>]
    ELSE IF \/ keySz # wc_PKCS7_GetOIDKeySize(encryptOID)
            \/ ivSz # wc_PKCS7_GetOIDBlockSize(encryptOID)
    THEN [ret |-> BAD_FUNC_ARG, out |-> <<>>]
    ELSE IF fails THEN [ret |-> BAD_FUNC_ARG, out |-> <<>>]
    ELSE [ret |-> 0, out |-> CbcEncrypt(key, iv, in)]

\* wc_PKCS7_DecryptContent: [ret, out]
wc_PKCS7_DecryptContent(encryptOID, key, keySz, iv, ivSz, in, fails) ==
    IF encryptOID \notin {AES128CBCb, DES3b}
    THEN [ret |-> ALGO_ID_E, out |-> <<>>]
    ELSE IF \/ keySz # wc_PKCS7_GetOIDKeySize(encryptOID)
            \/ ivSz # wc_PKCS7_GetOIDBlockSize(encryptOID)
    THEN [ret |-> BAD_FUNC_ARG, out |-> <<>>]
    ELSE IF fails THEN [ret |-> BAD_FUNC_ARG, out |-> <<>>]
    ELSE [ret |-> 0, out |-> CbcDecrypt(key, iv, in)]

\* asn.c GetNameHash: [ret, idx, val], val the hash of the name read
GetNameHash(input, idx, maxIdx) ==
    LET s == GetSequence(input, idx, maxIdx) IN
    IF s.ret < 0 THEN [ret |-> ASN_PARSE_E, idx |-> idx, val |-> <<>>]
    ELSE [ret |-> 0, idx |-> s.idx + s.val,
          val |-> NameHash(Slice(input, s.idx, s.val))]

\* asn.c GetInt: [ret, idx, val], val the cells of the INTEGER
GetInt(input, idx, maxIdx) ==
    LET h == GetASNHeader(input, ASN_INTEGER, idx, maxIdx) IN
    IF h.ret < 0 THEN [ret |-> ASN_PARSE_E, idx |-> idx, val |-> <<>>]
    ELSE [ret |-> 0, idx |-> h.idx + h.val,
          val |-> Slice(input, h.idx, h.val)]

----------------------------------------------------------------------------
(* KeyAgreeRecipientInfo (KARI) helpers.                                   *)

oidKeyWrapType == "oidKeyWrapType"
oidCmsKeyAgreeType == "oidCmsKeyAgreeType"

\* what a function injected with a failure of its environment fails at
NoFault == "none"

\* wc_PKCS7_KariNew: the WC_PKCS7_KARI structure
wc_PKCS7_KariNew(pkcs7_, direction) ==
    [decoded |-> ParseCert(<<>>), devId |-> pkcs7_.devId,
     recipKey |-> 0, senderKey |-> 0, senderKeyExport |-> <<>>,
     kek |-> <<>>, kekSz |-> 0, ukm |-> <<>>, sharedInfo |-> <<>>,
     direction |-> direction]

\* wc_PKCS7_KariFree: what the buffers of the structure hold once freed;
\* kek, senderKeyExport and sharedInfo are zeroed before they are freed
wc_PKCS7_KariFree(kari) == IF kari.kekSz > 0 THEN Zeroed ELSE Unused

\* [ret, kari]
wc_PKCS7_KariParseRecipCert(kari, cert, key) ==
    IF cert = <<>> THEN [ret |-> BAD_FUNC_ARG, kari |-> kari]
    ELSE LET decoded == ParseCert(cert)
             parsed == [kari EXCEPT !.decoded = decoded]
         IN
    IF decoded.ret < 0 THEN [ret |-> decoded.ret, kari |-> parsed]
    ELSE IF decoded.extSubjKeyId = Plain(<<0>>)
    THEN [ret |-> BAD_FUNC_ARG, kari |-> parsed]
    ELSE IF kari.direction = WC_PKCS7_ENCODE
    THEN IF wc_EccKeyDecode(decoded.publicKey) # 0
         THEN [ret |-> wc_EccKeyDecode(decoded.publicKey), kari |-> parsed]
         ELSE [ret |-> 0,
               kari |-> [parsed EXCEPT !.recipKey = decoded.publicKey]]
    ELSE IF kari.direction = WC_PKCS7_DECODE
    THEN IF key # 0
         THEN IF wc_EccKeyDecode(key) # 0
              THEN [ret |-> wc_EccKeyDecode(key), kari |-> parsed]
              ELSE [ret |-> 0, kari |-> [parsed EXCEPT !.recipKey = key]]
         ELSE IF kari.devId = INVALID_DEVID
         THEN [ret |-> BAD_FUNC_ARG, kari |-> parsed]
         ELSE [ret |-> 0, kari |-> parsed]
    ELSE [ret |-> BAD_FUNC_ARG, kari |-> parsed]

\* [ret, kari]
wc_PKCS7_KariGenerateEphemeralKey(kari, fault) ==
    IF kari.recipKey = 0 THEN [ret |-> BAD_FUNC_ARG, kari |-> kari]
    ELSE IF fault = "makeKey" THEN [ret |-> RNG_FAILURE_E, kari |-> kari]
    ELSE [ret |-> 0,
          kari |-> [kari EXCEPT
                      !.senderKey = EphemeralKey,
                      !.senderKeyExport = wc_ecc_export_x963(EphemeralKey)]]

\* the ECC-CMS-SharedInfo placed in kari->sharedInfo
wc_PKCS7_KariGenerateSharedInfo(kari, keyWrapOID) ==
    LET kekOctet == SetOctetString(4)
        suppPubInfoSeq == SetImplicit(ASN_SEQUENCE, 2, Len(kekOctet) + 4)
        ukmSz == Len(kari.ukm)
        entityUInfoOctet == IF ukmSz > 0 THEN SetOctetString(ukmSz) ELSE <<>>
        entityUInfoExplicitSeq ==
            IF ukmSz > 0 THEN SetExplicit(0, Len(entityUInfoOctet) + ukmSz)
            ELSE <<>>
        keyInfo == SetAlgoID(keyWrapOID, oidKeyWrapType, 0)
        kekBitSz == kari.kekSz * 8
        sharedInfoSz == Len(kekOctet) + 4 + Len(suppPubInfoSeq)
                        + Len(entityUInfoOctet) + ukmSz
                        + Len(entityUInfoExplicitSeq) + Len(keyInfo)
    IN  SetSequence(sharedInfoSz) \o keyInfo \o entityUInfoExplicitSeq
        \o entityUInfoOctet \o kari.ukm \o suppPubInfoSeq \o kekOctet
        \o Plain(<<0, 0, kekBitSz \div 256, kekBitSz % 256>>)

\* [ret, kari, secret]: secret is what the buffer of the ECDH shared secret
\* holds when it is freed
wc_PKCS7_KariGenerateKEK(kari, keyWrapOID, keyEncOID, fault) ==
    LET kSz == wc_PKCS7_GetOIDKeySize(keyWrapOID)
        sized == [kari EXCEPT !.kekSz = kSz]
    IN
    Value([shared \in {[sized EXCEPT
                          !.sharedInfo = wc_PKCS7_KariGenerateSharedInfo(sized, keyWrapOID)]} |->
    LET secret == IF kari.direction = WC_PKCS7_ENCODE
                  THEN wc_ecc_shared_secret(kari.senderKey, kari.recipKey)
                  ELSE wc_ecc_shared_secret(kari.recipKey, kari.senderKey)
    IN
    IF kari.senderKey = 0
    THEN [ret |-> BAD_FUNC_ARG, kari |-> kari, secret |-> Unused]
    ELSE IF kSz < 0 THEN [ret |-> kSz, kari |-> kari, secret |-> Unused]
    ELSE IF kari.direction \notin {WC_PKCS7_ENCODE, WC_PKCS7_DECODE}
    THEN [ret |-> BAD_FUNC_ARG, kari |-> shared, secret |-> Unused]
    ELSE IF fault = "sharedSecret"
    THEN [ret |-> BAD_FUNC_ARG, kari |-> shared, secret |-> Unused]
    ELSE IF keyEncOID # dhSinglePass_stdDH_sha256kdf_scheme
    THEN [ret |-> BAD_FUNC_ARG, kari |-> shared, secret |-> Live]
    ELSE IF fault = "kdf"
    THEN [ret |-> MEMORY_E, kari |-> shared, secret |-> Live]
    ELSE [ret |-> 0,
          kari |-> [shared EXCEPT
                      !.kek = wc_X963_KDF(secret, shared.sharedInfo)],
          secret |-> Live]])

\* [ret, out]: a positive ret is the size of out
wc_PKCS7_KariKeyWrap(cek, kek, keyWrapAlgo, direction, fault) ==
    IF keyWrapAlgo # AES128_WRAP THEN [ret |-> BAD_KEYWRAP_ALG_E, out |-> <<>>]
    ELSE IF direction = AES_ENCRYPTION
    THEN IF fault = "keyWrap" THEN [ret |-> BAD_FUNC_ARG, out |-> <<>>]
         ELSE [ret |-> 1, out |-> wc_AesKeyWrap(kek, cek)]
    ELSE IF direction = AES_DECRYPTION
    THEN wc_AesKeyUnWrap(kek, cek)
    ELSE [ret |-> BAD_FUNC_ARG, out |-> <<>>]

\* a failed wc_CreateKeyAgreeRecipientInfo
KariRecipFail(code, kek, secret) ==
    [ret |-> code, out |-> <<>>, kek |-> kek, secret |-> secret]

\* the KeyAgreeRecipientInfo written once the CEK is wrapped
KariRecipientInfo(kari, keyWrapAlgo, keyEncAlgo, contentKeyEnc, keyEncSz) ==
    LET \* RecipientEncryptedKeys
        encryptedKeyOctet == SetOctetString(keyEncSz)
        subjKeyId == kari.decoded.extSubjKeyId
        subjKeyIdOctet == SetOctetString(Len(subjKeyId))
        recipKeyIdSeq == SetImplicit(ASN_SEQUENCE, 0,
                                     Len(subjKeyIdOctet) + Len(subjKeyId))
        total1 == Len(encryptedKeyOctet) + keyEncSz + Len(subjKeyIdOctet)
                  + Len(subjKeyId) + Len(recipKeyIdSeq)
        recipEncKeySeq == SetSequence(total1)
        total2 == total1 + Len(recipEncKeySeq)
        recipEncKeysSeq == SetSequence(total2)
        total3 == total2 + Len(recipEncKeysSeq)
        \* optional UserKeyingMaterial
        ukmSz == Len(kari.ukm)
        ukmOctetStr == IF ukmSz > 0 THEN SetOctetString(ukmSz) ELSE <<>>
        ukmExplicitSeq ==
            IF ukmSz > 0 THEN SetExplicit(1, Len(ukmOctetStr) + ukmSz)
            ELSE <<>>
        total4 == total3 + (IF ukmSz > 0
                            THEN Len(ukmOctetStr) + ukmSz + Len(ukmExplicitSeq)
                            ELSE 0)
        \* KeyEncryptionAlgorithmIdentifier
        keyWrapAlg == SetAlgoID(keyWrapAlgo, oidKeyWrapType, 0)
        keyEncryptAlgoId == SetAlgoID(keyEncAlgo, oidCmsKeyAgreeType,
                                      Len(keyWrapAlg))
        total5 == total4 + Len(keyWrapAlg) + Len(keyEncryptAlgoId)
        \* OriginatorIdentifierOrKey
        senderKeyExportSz == Len(kari.senderKeyExport)
        origPubKeyStr == Plain(<<ASN_BIT_STRING, senderKeyExportSz + 1, 0>>)
        origAlgId == SetAlgoID(ECDSAk, oidKeyType, 0)
        origPubKeySeq == SetImplicit(ASN_SEQUENCE, 1,
                             Len(origAlgId) + Len(origPubKeyStr)
                             + senderKeyExportSz)
        origIdOrKeySeq == SetImplicit(ASN_SEQUENCE, 0,
                             Len(origPubKeySeq) + Len(origAlgId)
                             + Len(origPubKeyStr) + senderKeyExportSz)
        ver == SetMyVersion(3)
    IN
    Value([total6 \in {total5 + Len(origPubKeyStr) + senderKeyExportSz
                       + Len(origAlgId) + Len(origPubKeySeq) + Len(origIdOrKeySeq)
                       + Len(ver)} |->
    LET kariSeq == SetImplicit(ASN_SEQUENCE, 1, total6)
    IN  [totalSz |-> total6 + Len(kariSeq),
         out |-> kariSeq \o ver \o origIdOrKeySeq \o origPubKeySeq
                 \o origAlgId \o origPubKeyStr \o kari.senderKeyExport
                 \o ukmExplicitSeq \o ukmOctetStr \o kari.ukm
                 \o keyEncryptAlgoId \o keyWrapAlg
                 \o recipEncKeysSeq \o recipEncKeySeq \o recipKeyIdSeq
                 \o subjKeyIdOctet \o subjKeyId
                 \o encryptedKeyOctet \o <<contentKeyEnc>>]])

\* [ret, out, kek, secret]: ret the size of the KeyAgreeRecipientInfo in
\* out, kek and secret what those buffers hold once freed
wc_CreateKeyAgreeRecipientInfo(pkcs7_, cert, keyAgreeAlgo, blockKeySz, keyWrapAlgo, keyEncAlgo, contentKeyPlain, outSz, fault) ==
    IF keyAgreeAlgo # ECDSAk THEN KariRecipFail(BAD_FUNC_ARG, Unused, Unused)
    ELSE IF keyWrapAlgo # AES128_WRAP
    THEN KariRecipFail(BAD_KEYWRAP_ALG_E, Unused, Unused)
    ELSE
    LET new == [wc_PKCS7_KariNew(pkcs7_, WC_PKCS7_ENCODE)
                   EXCEPT !.ukm = pkcs7_.ukm]
    IN
    Value([parsed \in {wc_PKCS7_KariParseRecipCert(new, cert, 0)} |->
    IF parsed.ret # 0
    THEN KariRecipFail(parsed.ret, wc_PKCS7_KariFree(parsed.kari), Unused)
    ELSE LET eph == wc_PKCS7_KariGenerateEphemeralKey(parsed.kari, fault) IN
    IF eph.ret # 0
    THEN KariRecipFail(eph.ret, wc_PKCS7_KariFree(eph.kari), Unused)
    ELSE LET k == wc_PKCS7_KariGenerateKEK(eph.kari, keyWrapAlgo, keyEncAlgo,
                                           fault)
             freed == wc_PKCS7_KariFree(k.kari)
         IN
    IF k.ret # 0 THEN KariRecipFail(k.ret, freed, k.secret)
    ELSE LET w == wc_PKCS7_KariKeyWrap(contentKeyPlain, k.kari.kek,
                                       keyWrapAlgo, AES_ENCRYPTION, fault)
         IN
    \* the value returned is ret, which wc_PKCS7_KariGenerateKEK left at 0
    IF w.ret <= 0 THEN KariRecipFail(k.ret, freed, k.secret)
    ELSE LET r == KariRecipientInfo(k.kari, keyWrapAlgo, keyEncAlgo,
                                    w.out, w.ret)
         IN
    IF r.totalSz > outSz THEN KariRecipFail(BUFFER_E, freed, k.secret)
    ELSE [ret |-> Len(r.out), out |-> r.out, kek |-> freed,
          secret |-> k.secret]])

----------------------------------------------------------------------------
(* KeyTransRecipientInfo (KTRI) encoder.                                   *)

PUBLIC_KEY_E == -134

\* [ret, out]: ret the size of the RecipientInfo in out
wc_CreateRecipientInfo(cert, keyEncAlgo, blockKeySz, contentKeyPlain, outSz, fault) ==
    Value([decoded \in {ParseCert(cert)} |->
    LET ver == SetMyVersion(0)
        issuerSz == Len(decoded.issuerRaw)
        issuerSeq == SetSequence(issuerSz)
        serial == SetSerialNumber(decoded.serial)
        issuerSerialSeq == SetSequence(Len(issuerSeq) + issuerSz + Len(serial))
        keyAlgArray == SetAlgoID(keyEncAlgo, oidKeyType, 0)
        contentKeyEnc == wc_RsaPublicEncrypt(contentKeyPlain,
                                             decoded.publicKey)
        keyEncSz == 1
        encKeyOctetStr == SetOctetString(keyEncSz)
        recipSeq == SetSequence(Len(ver) + Len(issuerSerialSeq)
                                + Len(issuerSeq) + issuerSz + Len(serial)
                                + Len(keyAlgArray) + Len(encKeyOctetStr)
                                + keyEncSz)
    IN
    IF decoded.ret < 0 THEN [ret |-> decoded.ret, out |-> <<>>]
    ELSE IF issuerSz = 0 THEN [ret |-> -1, out |-> <<>>]
    ELSE IF Len(decoded.serial) = 0 THEN [ret |-> -1, out |-> <<>>]
    ELSE IF keyEncAlgo # RSAk THEN [ret |-> ALGO_ID_E, out |-> <<>>]
    ELSE IF wc_RsaKeyDecode(decoded.publicKey) < 0
    THEN [ret |-> PUBLIC_KEY_E, out |-> <<>>]
    ELSE IF fault = "rsaEncrypt" THEN [ret |-> RNG_FAILURE_E, out |-> <<>>]
    ELSE IF Len(recipSeq) + Len(ver) + Len(issuerSerialSeq) + Len(issuerSeq)
            + Len(serial) + Len(keyAlgArray) + Len(encKeyOctetStr) + keyEncSz
            > outSz
    THEN [ret |-> BUFFER_E, out |-> <<>>]
    ELSE LET written == recipSeq \o ver \o issuerSerialSeq \o issuerSeq
                        \o decoded.issuerRaw \o serial \o keyAlgArray
                        \o encKeyOctetStr \o <<contentKeyEnc>>
         IN  [ret |-> Len(written), out |-> written]])

----------------------------------------------------------------------------
(* wc_PKCS7_EncodeEnvelopedData.                                           *)

\* the integers of a buffer of plain cells
Ints(buf) == [i \in 1..Len(buf) |-> IntOf(buf[i])]

\* wc_PKCS7_GenerateIV: [ret, iv]
wc_PKCS7_GenerateIV(ivSz, fault) ==
    IF ivSz = 0 THEN [ret |-> BAD_FUNC_ARG, iv |-> <<>>]
    ELSE IF fault = "iv" THEN [ret |-> RNG_FAILURE_E, iv |-> <<>>]
    ELSE [ret |-> 0, iv |-> RngIv(ivSz)]

\* a return of the encoder: the value, the bytes written, and what the
\* buffers of the CEK, the KEK and the ECDH secret hold at the return
EnvelopedResult(code, written, contentKeyPlain, kek, secret) ==
    [ret |-> code, out |-> written, contentKeyPlain |-> contentKeyPlain,
     kek |-> kek, secret |-> secret]

\* the RecipientInfo of the session's certificate: [ret, out, kek, secret]
EncodeRecipientInfo(pkcs7_, blockKeySz, contentKeyPlain, fault) ==
    IF pkcs7_.publicKeyOID = RSAk
    THEN LET r == wc_CreateRecipientInfo(pkcs7_.singleCert,
                      pkcs7_.publicKeyOID, blockKeySz, contentKeyPlain,
                      MAX_RECIP_SZ, fault)
         IN  [ret |-> r.ret, out |-> r.out, kek |-> Unused, secret |-> Unused]
    ELSE wc_CreateKeyAgreeRecipientInfo(pkcs7_, pkcs7_.singleCert,
             pkcs7_.publicKeyOID, blockKeySz, pkcs7_.keyWrapOID,
             pkcs7_.keyAgreeOID, contentKeyPlain, MAX_RECIP_SZ, fault)

\* the encoder once the RecipientInfo recip is built
EncodeEnvelopedContent(pkcs7_, outputSz, fault, contentKeyPlain, blockKeySz, blockSz, recip) ==
    LET recipSz == recip.ret
        recipSet == SetSet(recipSz)
        iv == wc_PKCS7_GenerateIV(blockSz, fault)
        contentType == wc_SetContentType(pkcs7_.contentOID, MAX_OID_SZ)
        contentSz == Len(pkcs7_.content)
        padSz == wc_PKCS7_GetPadSize(contentSz, blockSz)
        encryptedOutSz == contentSz + padSz
        plain == wc_PKCS7_PadData(Ints(pkcs7_.content), contentSz,
                                  encryptedOutSz, blockSz)
        ivOctetString == SetOctetString(blockSz)
        contentEncAlgo == SetAlgoID(pkcs7_.encryptOID, oidBlkType,
                                    Len(ivOctetString) + blockSz)
        enc == wc_PKCS7_EncryptContent(pkcs7_.encryptOID, contentKeyPlain,
                   blockKeySz, iv.iv, blockSz, Plain(plain.out),
                   fault = "encrypt")
        encContentOctet == SetImplicit(ASN_OCTET_STRING, 0, encryptedOutSz)
        encContentSeq == SetSequence(contentType.ret + Len(contentEncAlgo)
                             + Len(ivOctetString) + blockSz
                             + Len(encContentOctet) + encryptedOutSz)
        ver == SetMyVersion(IF pkcs7_.publicKeyOID = ECDSAk THEN 2 ELSE 0)
        outerContentType == wc_SetContentType(ENVELOPED_DATA, MAX_OID_SZ)
    IN
    Value([total1 \in {Len(ver) + Len(recipSet) + recipSz + Len(encContentSeq)
                       + contentType.ret + Len(contentEncAlgo)
                       + Len(ivOctetString) + blockSz + Len(encContentOctet)
                       + encryptedOutSz} |->
    LET envDataSeq == SetSequence(total1)
        total2 == total1 + Len(envDataSeq)
        outerContent == SetExplicit(0, total2)
        total3 == total2 + outerContentType.ret + Len(outerContent)
        contentInfoSeq == SetSequence(total3)
        totalSz == total3 + Len(contentInfoSeq)
        stays(code) == EnvelopedResult(code, <<>>, Live, recip.kek,
                                       recip.secret)
    IN
    IF iv.ret # 0 THEN stays(iv.ret)
    ELSE IF contentType.ret < 0 THEN stays(contentType.ret)
    ELSE IF padSz < 0 THEN stays(padSz)
    ELSE IF plain.ret < 0 THEN stays(plain.ret)
    ELSE IF enc.ret # 0 THEN stays(enc.ret)
    ELSE IF totalSz > outputSz THEN stays(BUFFER_E)
    ELSE EnvelopedResult(totalSz,
             contentInfoSeq \o outerContentType.out \o outerContent
             \o envDataSeq \o ver \o recipSet \o recip.out \o encContentSeq
             \o contentType.out \o contentEncAlgo \o ivOctetString \o iv.iv
             \o encContentOctet \o enc.out,
             Zeroed, recip.kek, recip.secret)])

\* [ret, out, contentKeyPlain, kek, secret]
wc_PKCS7_EncodeEnvelopedData(pkcs7_, outputSz, fault) ==
    LET blockKeySz == wc_PKCS7_GetOIDKeySize(pkcs7_.encryptOID)
        blockSz == wc_PKCS7_GetOIDBlockSize(pkcs7_.encryptOID)
        early(code) == EnvelopedResult(code, <<>>, Unused, Unused, Unused)
        contentKeyPlain == RngKey
    IN
    IF \/ Len(pkcs7_.content) = 0
       \/ pkcs7_.encryptOID = 0
       \/ pkcs7_.singleCert = <<>>
       \/ pkcs7_.publicKeyOID = 0
    THEN early(BAD_FUNC_ARG)
    ELSE IF outputSz = 0 THEN early(BAD_FUNC_ARG)
    ELSE IF blockKeySz < 0 THEN early(blockKeySz)
    ELSE IF blockSz < 0 THEN early(blockSz)
    ELSE IF fault = "rng" THEN early(RNG_FAILURE_E)
    ELSE IF pkcs7_.publicKeyOID \notin {RSAk, ECDSAk}
    THEN EnvelopedResult(BAD_FUNC_ARG, <<>>, Live, Unused, Unused)
    ELSE LET recip == EncodeRecipientInfo(pkcs7_, blockKeySz,
                                          contentKeyPlain, fault)
         IN
    IF recip.ret < 0
    THEN EnvelopedResult(recip.ret, <<>>, Live, recip.kek, recip.secret)
    ELSE EncodeEnvelopedContent(pkcs7_, outputSz, fault, contentKeyPlain,
                                blockKeySz, blockSz, recip)

----------------------------------------------------------------------------
(* EncryptedData: the content encrypted under a key the two parties share. *)

\* wc_PKCS7_EncodeEncryptedData: [ret, out]
wc_PKCS7_EncodeEncryptedData(pkcs7_, outputSz, fault) ==
    LET fail(code) == [ret |-> code, out |-> <<>>]
        outerContentType == wc_SetContentType(ENCRYPTED_DATA, MAX_OID_SZ)
        attribsCount == Len(pkcs7_.unprotectedAttribs)
        ver == SetMyVersion(IF attribsCount > 0 THEN 2 ELSE 0)
        contentType == wc_SetContentType(pkcs7_.contentOID, MAX_OID_SZ)
        blockSz == wc_PKCS7_GetOIDBlockSize(pkcs7_.encryptOID)
        contentSz == Len(pkcs7_.content)
    IN
    IF \/ contentSz = 0
       \/ pkcs7_.encryptOID = 0
       \/ pkcs7_.encryptionKey = <<>>
       \/ pkcs7_.encryptionKeySz = 0
    THEN fail(BAD_FUNC_ARG)
    ELSE IF outputSz = 0 THEN fail(BAD_FUNC_ARG)
    ELSE IF outerContentType.ret < 0 THEN fail(outerContentType.ret)
    ELSE IF contentType.ret < 0 THEN fail(contentType.ret)
    ELSE IF blockSz < 0 THEN fail(blockSz)
    ELSE
    LET padSz == wc_PKCS7_GetPadSize(contentSz, blockSz) IN
    IF padSz < 0 THEN fail(padSz)
    ELSE
    LET encryptedOutSz == contentSz + padSz
        plain == wc_PKCS7_PadData(Ints(pkcs7_.content), contentSz,
                                  encryptedOutSz, blockSz)
        ivOctetString == SetOctetString(blockSz)
        contentEncAlgo == SetAlgoID(pkcs7_.encryptOID, oidBlkType,
                                    Len(ivOctetString) + blockSz)
        iv == wc_PKCS7_GenerateIV(blockSz, fault)
    IN
    IF plain.ret < 0 THEN fail(plain.ret)
    ELSE IF Len(contentEncAlgo) = 0 THEN fail(BAD_FUNC_ARG)
    ELSE IF iv.ret # 0 THEN fail(iv.ret)
    ELSE
    Value([enc \in {wc_PKCS7_EncryptContent(pkcs7_.encryptOID,
                        pkcs7_.encryptionKey, pkcs7_.encryptionKeySz, iv.iv,
                        blockSz, Plain(plain.out), fault = "encrypt")} |->
    IF enc.ret # 0 THEN fail(enc.ret)
    ELSE
    LET encContentOctet == SetImplicit(ASN_OCTET_STRING, 0, encryptedOutSz)
        encContentSeq == SetSequence(contentType.ret + Len(contentEncAlgo)
                             + Len(ivOctetString) + blockSz
                             + Len(encContentOctet) + encryptedOutSz)
        attribs == EncodeAttributes(attribsCount, pkcs7_.unprotectedAttribs,
                                    attribsCount)
        attribsSz == IF attribsCount # 0 THEN attribs.sz ELSE 0
        flatAttribs == IF attribsCount # 0
                       THEN FlattenAttributes(attribs.ea, attribsCount,
                                              ZeroAttrib)
                       ELSE <<>>
        attribSet == IF attribsCount # 0
                     THEN SetImplicit(ASN_SET, 1, attribsSz) ELSE <<>>
    IN
    Value([total1 \in {Len(ver) + Len(encContentSeq) + contentType.ret
                       + Len(contentEncAlgo) + Len(ivOctetString) + blockSz
                       + Len(encContentOctet) + encryptedOutSz + attribsSz
                       + Len(attribSet)} |->
    LET encDataSeq == SetSequence(total1)
        total2 == total1 + Len(encDataSeq)
        outerContent == SetExplicit(0, total2)
        total3 == total2 + outerContentType.ret + Len(outerContent)
        contentInfoSeq == SetSequence(total3)
        totalSz == total3 + Len(contentInfoSeq)
    IN
    IF totalSz > outputSz THEN fail(BUFFER_E)
    ELSE [ret |-> totalSz,
          out |-> contentInfoSeq \o outerContentType.out \o outerContent
                  \o encDataSeq \o ver \o encContentSeq \o contentType.out
                  \o contentEncAlgo \o ivOctetString \o iv.iv
                  \o encContentOctet \o enc.out \o attribSet
                  \o flatAttribs]])])

\* wc_PKCS7_DecodeUnprotectedAttributes: [ret, p, idx]
wc_PKCS7_DecodeUnprotectedAttributes(pkcs7_, pkiMsg, pkiMsgSz, idx) ==
    IF IntAt(pkiMsg, idx) # ASN_CONSTRUCTED + ASN_CONTEXT_SPECIFIC + 1
    THEN [ret |-> ASN_PARSE_E, p |-> pkcs7_, idx |-> idx]
    ELSE
    LET l == GetLength(pkiMsg, idx + 1, pkiMsgSz) IN
    IF l.ret < 0 THEN [ret |-> ASN_PARSE_E, p |-> pkcs7_, idx |-> idx]
    ELSE
    LET a == wc_PKCS7_ParseAttribs(pkcs7_, Slice(pkiMsg, l.idx, l.val), l.val)
    IN  IF a.ret < 0 THEN [ret |-> a.ret, p |-> a.p, idx |-> idx]
        ELSE [ret |-> 0, p |-> a.p, idx |-> l.idx]

\* wc_PKCS7_DecodeEncryptedData: [ret, out, p], out the cells copied to
\* output: the copy is not bounded by outputSz
wc_PKCS7_DecodeEncryptedData(pkcs7_, pkiMsg, pkiMsgSz, outputSz, fault) ==
    LET fail(code) == [ret |-> code, out |-> <<>>, p |-> pkcs7_]
        s0 == GetSequence(pkiMsg, 0, pkiMsgSz)
    IN
    IF pkcs7_.encryptionKey = <<>> \/ pkcs7_.encryptionKeySz = 0
    THEN fail(BAD_FUNC_ARG)
    ELSE IF pkiMsgSz = 0 \/ outputSz = 0 THEN fail(BAD_FUNC_ARG)
    ELSE IF s0.ret < 0 THEN fail(ASN_PARSE_E)
    ELSE
    Value([ct \in {GetObjectId(pkiMsg, s0.idx, pkiMsgSz)} |->
    IF ct.ret < 0 THEN fail(ASN_PARSE_E)
    ELSE IF ct.val # ENCRYPTED_DATA THEN fail(PKCS7_OID_E)
    ELSE IF IntAt(pkiMsg, ct.idx) # ASN_CONSTRUCTED + ASN_CONTEXT_SPECIFIC
    THEN fail(ASN_PARSE_E)
    ELSE
    LET l0 == GetLength(pkiMsg, ct.idx + 1, pkiMsgSz)
        s1 == GetSequence(pkiMsg, l0.idx, pkiMsgSz)
        v == GetMyVersion(pkiMsg, s1.idx, pkiMsgSz)
        s2 == GetSequence(pkiMsg, v.idx, pkiMsgSz)
    IN
    IF l0.ret < 0 \/ s1.ret < 0 \/ v.ret < 0 \/ s2.ret < 0
    THEN fail(ASN_PARSE_E)
    ELSE
    Value([ict \in {GetObjectId(pkiMsg, s2.idx, pkiMsgSz)} |->
    IF ict.ret < 0 THEN fail(ASN_PARSE_E)
    ELSE
    Value([a \in {GetAlgoId(pkiMsg, ict.idx, pkiMsgSz)} |->
    IF a.ret < 0 THEN fail(ASN_PARSE_E)
    ELSE
    LET expBlockSz == wc_PKCS7_GetOIDBlockSize(a.val)
        li == GetLength(pkiMsg, a.idx + 1, pkiMsgSz)
    IN
    IF expBlockSz < 0 THEN fail(expBlockSz)
    ELSE IF IntAt(pkiMsg, a.idx) # ASN_OCTET_STRING THEN fail(ASN_PARSE_E)
    ELSE IF li.ret < 0 THEN fail(ASN_PARSE_E)
    ELSE IF li.val # expBlockSz THEN fail(ASN_PARSE_E)
    ELSE
    LET tmpIv == Slice(pkiMsg, li.idx, li.val)
        cIdx == li.idx + li.val
        lc == GetLength(pkiMsg, cIdx + 1, pkiMsgSz)
    IN
    IF IntAt(pkiMsg, cIdx) # ASN_CONTEXT_SPECIFIC THEN fail(ASN_PARSE_E)
    ELSE IF lc.ret <= 0 THEN fail(ASN_PARSE_E)
    ELSE
    LET encryptedContentSz == lc.val
        idx == lc.idx + encryptedContentSz
    IN
    Value([d \in {wc_PKCS7_DecryptContent(a.val, pkcs7_.encryptionKey,
                      pkcs7_.encryptionKeySz, tmpIv, expBlockSz,
                      Slice(pkiMsg, lc.idx, encryptedContentSz),
                      fault = "decrypt")} |->
    IF d.ret # 0 THEN fail(d.ret)
    ELSE
    LET padLen == Byte(IntOf(d.out[encryptedContentSz]))
        written == Slice(d.out, 0, encryptedContentSz - padLen)
        p1 == [pkcs7_ EXCEPT !.decodedAttrib = <<>>]
        haveAttribs == idx < pkiMsgSz
        u == IF haveAttribs
             THEN wc_PKCS7_DecodeUnprotectedAttributes(p1, pkiMsg, pkiMsgSz,
                                                       idx)
             ELSE [ret |-> 0, p |-> p1, idx |-> idx]
    IN
    IF u.ret # 0 THEN [ret |-> ASN_PARSE_E, out |-> written, p |-> u.p]
    ELSE IF (~haveAttribs /\ v.val # 0) \/ (haveAttribs /\ v.val # 2)
    THEN [ret |-> ASN_VERSION_E, out |-> written, p |-> u.p]
    ELSE [ret |-> encryptedContentSz - padLen, out |-> written,
          p |-> u.p]])])])])

----------------------------------------------------------------------------
(* EnvelopedData decoder: the RecipientInfo parsers.  Each gives a record  *)
(* with ret and, where the C function has such an in/out parameter, idx,   *)
(* recipFound and decryptedKey (<<>> while nothing was written to it).     *)

MAX_ENCRYPTED_KEY_SZ == 512

\* a return of a RecipientInfo parser
RecipResult(code, idx, recipFound, decryptedKey, keyAgreeOID, kek, secret) ==
    [ret |-> code, idx |-> idx, recipFound |-> recipFound,
     decryptedKey |-> decryptedKey, keyAgreeOID |-> keyAgreeOID,
     kek |-> kek, secret |-> secret]

\* wc_PKCS7_DecodeKtri; uninit is what the encryptedKey buffer holds before
\* anything is copied to it
wc_PKCS7_DecodeKtri(pkcs7_, pkiMsg, pkiMsgSz, idx, decryptedKey, recipFound, uninit) ==
    LET fail(code) == RecipResult(code, idx, recipFound, decryptedKey,
                                  pkcs7_.keyAgreeOID, Unused, Unused)
        s == GetSequence(pkiMsg, idx, pkiMsgSz)
    IN
    Value([h \in {GetNameHash(pkiMsg, s.idx, pkiMsgSz)} |->
    LET found == IF h.val = pkcs7_.issuerHash THEN 1 ELSE recipFound
        n == GetInt(pkiMsg, h.idx, pkiMsgSz)
    IN
    Value([a \in {GetAlgoId(pkiMsg, n.idx, pkiMsgSz)} |->
    LET l == GetLength(pkiMsg, a.idx + 1, pkiMsgSz)
    IN
    Value([encryptedKey \in {IF found = 1 THEN Slice(pkiMsg, l.idx, l.val)
                             ELSE Slice(uninit, 0, l.val)} |->
    LET after == l.idx + l.val
        keyRet == IF pkcs7_.privateKey # 0
                  THEN wc_RsaKeyDecode(pkcs7_.privateKey)
                  ELSE IF pkcs7_.devId = INVALID_DEVID THEN BAD_FUNC_ARG
                  ELSE 0
        d == IF Len(encryptedKey) = 1
             THEN wc_RsaPrivateDecryptInline(encryptedKey[1],
                                             pkcs7_.privateKey)
             ELSE [ret |-> RSA_PAD_E, out |-> <<>>]
    IN
    IF s.ret < 0 THEN fail(ASN_PARSE_E)
    ELSE IF h.ret < 0 THEN fail(ASN_PARSE_E)
    ELSE IF n.ret < 0
    THEN RecipResult(ASN_PARSE_E, idx, found, decryptedKey,
                     pkcs7_.keyAgreeOID, Unused, Unused)
    ELSE IF a.ret < 0
    THEN RecipResult(ASN_PARSE_E, idx, found, decryptedKey,
                     pkcs7_.keyAgreeOID, Unused, Unused)
    ELSE IF a.val # RSAk
    THEN RecipResult(ALGO_ID_E, idx, found, decryptedKey,
                     pkcs7_.keyAgreeOID, Unused, Unused)
    ELSE IF IntAt(pkiMsg, a.idx) # ASN_OCTET_STRING
    THEN RecipResult(ASN_PARSE_E, idx, found, decryptedKey,
                     pkcs7_.keyAgreeOID, Unused, Unused)
    ELSE IF l.ret < 0
    THEN RecipResult(ASN_PARSE_E, idx, found, decryptedKey,
                     pkcs7_.keyAgreeOID, Unused, Unused)
    ELSE IF keyRet # 0
    THEN RecipResult(keyRet, after, found, decryptedKey,
                     pkcs7_.keyAgreeOID, Unused, Unused)
    ELSE IF d.ret <= 0
    THEN RecipResult(d.ret, after, found, decryptedKey,
                     pkcs7_.keyAgreeOID, Unused, Unused)
    ELSE RecipResult(0, after, found, d.out, pkcs7_.keyAgreeOID, Unused, Unused)])])])

\* a context-specific constructed tag
ContextTag(number) == ASN_CONSTRUCTED + ASN_CONTEXT_SPECIFIC + number

\* [ret, idx, kari]
wc_PKCS7_KariGetOriginatorIdentifierOrKey(kari, pkiMsg, pkiMsgSz, idx) ==
    LET fail(code) == [ret |-> code, idx |-> idx, kari |-> kari]
        l0 == GetLength(pkiMsg, idx + 1, pkiMsgSz)
        l1 == GetLength(pkiMsg, l0.idx + 1, pkiMsgSz)
    IN
    Value([a \in {GetAlgoId(pkiMsg, l1.idx, pkiMsgSz)} |->
    LET checked == pkiMsgSz > a.idx + 1
        bitIdx == IF checked THEN a.idx + 1 ELSE a.idx
        l2 == GetLength(pkiMsg, bitIdx, pkiMsgSz)
        key == wc_ecc_import_x963(Slice(pkiMsg, l2.idx + 1, l2.val - 1))
    IN
    IF IntAt(pkiMsg, idx) # ContextTag(0) THEN fail(ASN_PARSE_E)
    ELSE IF l0.ret < 0 THEN fail(ASN_PARSE_E)
    ELSE IF IntAt(pkiMsg, l0.idx) # ContextTag(1) THEN fail(ASN_PARSE_E)
    ELSE IF l1.ret < 0 THEN fail(ASN_PARSE_E)
    ELSE IF a.ret < 0 THEN fail(ASN_PARSE_E)
    ELSE IF a.val # ECDSAk THEN fail(ASN_PARSE_E)
    ELSE IF checked /\ IntAt(pkiMsg, a.idx) # ASN_BIT_STRING
    THEN fail(ASN_PARSE_E)
    ELSE IF l2.ret < 0 THEN fail(ASN_PARSE_E)
    ELSE IF pkiMsgSz < l2.idx + 1 \/ IntAt(pkiMsg, l2.idx) # 0
    THEN fail(ASN_EXPECT_0_E)
    ELSE IF key.ret # 0 THEN fail(key.ret)
    ELSE [ret |-> 0, idx |-> l2.idx + 1 + (l2.val - 1),
          kari |-> [kari EXCEPT !.senderKey = key.key]]])

\* [ret, idx, kari]
wc_PKCS7_KariGetUserKeyingMaterial(kari, pkiMsg, pkiMsgSz, idx) ==
    LET none == [ret |-> 0, idx |-> idx, kari |-> kari]
        l0 == GetLength(pkiMsg, idx + 1, pkiMsgSz)
        checked == pkiMsgSz > l0.idx + 1
        octIdx == IF checked THEN l0.idx + 1 ELSE l0.idx
        l1 == GetLength(pkiMsg, octIdx, pkiMsgSz)
    IN
    IF IntAt(pkiMsg, idx) # ContextTag(1) THEN none
    ELSE IF l0.ret < 0 THEN none
    ELSE IF checked /\ IntAt(pkiMsg, l0.idx) # ASN_OCTET_STRING THEN none
    ELSE IF l1.ret < 0 THEN none
    ELSE [ret |-> 0, idx |-> l1.idx + l1.val,
          kari |-> [kari EXCEPT !.ukm = Slice(pkiMsg, l1.idx, l1.val)]]

\* [ret, idx, keyAgreeOID, keyWrapOID]
wc_PKCS7_KariGetKeyEncryptionAlgorithmId(pkiMsg, pkiMsgSz, idx) ==
    Value([agree \in {GetAlgoId(pkiMsg, idx, pkiMsgSz)} |->
    Value([wrap \in {GetAlgoId(pkiMsg, agree.idx, pkiMsgSz)} |->
    IF agree.ret < 0 \/ wrap.ret < 0
    THEN [ret |-> ASN_PARSE_E, idx |-> idx, keyAgreeOID |-> 0,
          keyWrapOID |-> 0]
    ELSE [ret |-> 0, idx |-> wrap.idx, keyAgreeOID |-> agree.val,
          keyWrapOID |-> wrap.val]])])

\* [ret, idx, recipFound]
wc_PKCS7_KariGetSubjectKeyIdentifier(kari, pkiMsg, pkiMsgSz, idx, recipFound) ==
    LET fail(code) == [ret |-> code, idx |-> idx, recipFound |-> recipFound]
        l0 == GetLength(pkiMsg, idx + 1, pkiMsgSz)
        checked == pkiMsgSz > l0.idx + 1
        octIdx == IF checked THEN l0.idx + 1 ELSE l0.idx
    IN
    Value([l1 \in {GetLength(pkiMsg, octIdx, pkiMsgSz)} |->
    LET subjKeyId == Slice(pkiMsg, l1.idx, l1.val)
    IN
    IF ~(pkiMsgSz > idx + 1 /\ IntAt(pkiMsg, idx) = ContextTag(0))
    THEN fail(ASN_PARSE_E)
    ELSE IF l0.ret < 0 THEN fail(ASN_PARSE_E)
    ELSE IF checked /\ IntAt(pkiMsg, l0.idx) # ASN_OCTET_STRING
    THEN fail(ASN_PARSE_E)
    ELSE IF l1.ret < 0 THEN fail(ASN_PARSE_E)
    ELSE IF l1.val # Len(kari.decoded.extSubjKeyId) THEN fail(ASN_PARSE_E)
    ELSE [ret |-> 0, idx |-> l1.idx + l1.val,
          recipFound |-> IF subjKeyId = kari.decoded.extSubjKeyId THEN 1
                         ELSE recipFound]])

\* [ret, idx, recipFound]
wc_PKCS7_KariGetIssuerAndSerialNumber(kari, pkiMsg, pkiMsgSz, idx, recipFound) ==
    LET s == GetSequence(pkiMsg, idx, pkiMsgSz)
    IN
    Value([h \in {GetNameHash(pkiMsg, s.idx, pkiMsgSz)} |->
    LET found == IF h.val = kari.decoded.issuerHash THEN 1 ELSE recipFound
    IN
    Value([n \in {GetInt(pkiMsg, h.idx, pkiMsgSz)} |->
    IF s.ret < 0 \/ h.ret < 0
    THEN [ret |-> ASN_PARSE_E, idx |-> idx, recipFound |-> recipFound]
    ELSE IF n.ret < 0
    THEN [ret |-> ASN_PARSE_E, idx |-> idx, recipFound |-> found]
    ELSE IF n.val # kari.decoded.serial
    THEN [ret |-> PKCS7_RECIP_E, idx |-> n.idx, recipFound |-> found]
    ELSE [ret |-> 0, idx |-> n.idx, recipFound |-> found]])])

\* [ret, idx, recipFound, encryptedKey]
wc_PKCS7_KariGetRecipientEncryptedKeys(kari, pkiMsg, pkiMsgSz, idx, recipFound) ==
    LET s0 == GetSequence(pkiMsg, idx, pkiMsgSz)
        s1 == GetSequence(pkiMsg, s0.idx, pkiMsgSz)
    IN
    Value([rid \in {IF pkiMsgSz > s1.idx + 1
                       /\ IntAt(pkiMsg, s1.idx) = ContextTag(0)
                    THEN wc_PKCS7_KariGetSubjectKeyIdentifier(kari, pkiMsg,
                             pkiMsgSz, s1.idx, recipFound)
                    ELSE wc_PKCS7_KariGetIssuerAndSerialNumber(kari, pkiMsg,
                             pkiMsgSz, s1.idx, recipFound)} |->
    LET checked == pkiMsgSz > rid.idx + 1
        octIdx == IF checked THEN rid.idx + 1 ELSE rid.idx
        l == GetLength(pkiMsg, octIdx, pkiMsgSz)
        fail(code, found) == [ret |-> code, idx |-> idx,
                              recipFound |-> found, encryptedKey |-> <<>>]
    IN
    IF s0.ret < 0 \/ s1.ret < 0 THEN fail(ASN_PARSE_E, recipFound)
    ELSE IF rid.ret # 0 THEN fail(rid.ret, rid.recipFound)
    ELSE IF checked /\ IntAt(pkiMsg, rid.idx) # ASN_OCTET_STRING
    THEN fail(ASN_PARSE_E, rid.recipFound)
    ELSE IF l.ret < 0 THEN fail(ASN_PARSE_E, rid.recipFound)
    ELSE IF l.val > MAX_ENCRYPTED_KEY_SZ THEN fail(BUFFER_E, rid.recipFound)
    ELSE [ret |-> 0, idx |-> l.idx + l.val, recipFound |-> rid.recipFound,
          encryptedKey |-> Slice(pkiMsg, l.idx, l.val)]])

\* wc_PKCS7_DecodeKari
wc_PKCS7_DecodeKari(pkcs7_, pkiMsg, pkiMsgSz, idx, decryptedKey, recipFound, fault) ==
    LET new == wc_PKCS7_KariNew(pkcs7_, WC_PKCS7_DECODE)
        parsed == wc_PKCS7_KariParseRecipCert(new, pkcs7_.singleCert,
                                              pkcs7_.privateKey)
    IN
    Value([orig \in {wc_PKCS7_KariGetOriginatorIdentifierOrKey(parsed.kari,
                         pkiMsg, pkiMsgSz, idx)} |->
    Value([ukm \in {wc_PKCS7_KariGetUserKeyingMaterial(orig.kari, pkiMsg,
                         pkiMsgSz, orig.idx)} |->
    Value([alg \in {wc_PKCS7_KariGetKeyEncryptionAlgorithmId(pkiMsg, pkiMsgSz,
                         ukm.idx)} |->
    LET keyAgreeOID == IF pkcs7_.keyAgreeOID = 0 THEN alg.keyAgreeOID
                       ELSE pkcs7_.keyAgreeOID
    IN
    Value([keys \in {wc_PKCS7_KariGetRecipientEncryptedKeys(ukm.kari, pkiMsg,
                         pkiMsgSz, alg.idx, recipFound)} |->
    Value([k \in {wc_PKCS7_KariGenerateKEK(ukm.kari, alg.keyWrapOID, keyAgreeOID,
                                           fault)} |->
    LET w == IF Len(keys.encryptedKey) = 1
             THEN wc_PKCS7_KariKeyWrap(keys.encryptedKey[1], k.kari.kek,
                      alg.keyWrapOID, AES_DECRYPTION, fault)
             ELSE [ret |-> BAD_FUNC_ARG, out |-> <<>>]
        freed == wc_PKCS7_KariFree(k.kari)
        fail(code) == RecipResult(code, idx, recipFound, decryptedKey,
                                  pkcs7_.keyAgreeOID, Unused, Unused)
    IN
    IF pkcs7_.singleCert = <<>> THEN fail(BAD_FUNC_ARG)
    ELSE IF parsed.ret # 0 THEN fail(parsed.ret)
    ELSE IF orig.ret # 0 THEN fail(orig.ret)
    ELSE IF ukm.ret # 0 THEN fail(ukm.ret)
    ELSE IF alg.ret # 0 THEN fail(alg.ret)
    ELSE IF alg.keyWrapOID # AES128_WRAP
    THEN RecipResult(BAD_KEYWRAP_ALG_E, idx, recipFound, decryptedKey,
                     keyAgreeOID, Unused, Unused)
    ELSE IF keys.ret # 0
    THEN RecipResult(keys.ret, idx, keys.recipFound, decryptedKey,
                     keyAgreeOID, Unused, Unused)
    ELSE IF k.ret # 0
    THEN RecipResult(k.ret, keys.idx, keys.recipFound, decryptedKey,
                     keyAgreeOID, freed, k.secret)
    ELSE IF w.ret <= 0
    THEN RecipResult(w.ret, keys.idx, keys.recipFound, decryptedKey,
                     keyAgreeOID, freed, k.secret)
    ELSE RecipResult(0, keys.idx, keys.recipFound, w.out, keyAgreeOID,
                     freed, k.secret)])])])])])

----------------------------------------------------------------------------
(* wc_PKCS7_DecodeRecipientInfos and wc_PKCS7_DecodeEnvelopedData.         *)

\* what a buffer used twice holds: a secret left once is left
Worst(a, b) ==
    IF a = Live \/ b = Live THEN Live
    ELSE IF a = Zeroed \/ b = Zeroed THEN Zeroed
    ELSE Unused

\* the while loop of wc_PKCS7_DecodeRecipientInfos from savedIdx on; acc is
\* the result of the recipients decoded so far, tried their kinds
RECURSIVE DecodeRecipientLoop(_, _, _, _, _, _, _, _)
DecodeRecipientLoop(pkcs7_, pkiMsg, pkiMsgSz, savedIdx, acc, tried, uninit, fault) ==
    LET stop == [acc EXCEPT !.ret = 0, !.idx = savedIdx] @@ [tried |-> tried]
        p == [pkcs7_ EXCEPT !.keyAgreeOID = acc.keyAgreeOID]
        s == GetSequence(pkiMsg, savedIdx, pkiMsgSz)
        sv == GetMyVersion(pkiMsg, s.idx, pkiMsgSz)
        l == GetLength(pkiMsg, savedIdx + 1, pkiMsgSz)
        lv == GetMyVersion(pkiMsg, l.idx, pkiMsgSz)
        ktri == wc_PKCS7_DecodeKtri(p, pkiMsg, pkiMsgSz, sv.idx,
                                    acc.decryptedKey, acc.recipFound, uninit)
        kari == wc_PKCS7_DecodeKari(p, pkiMsg, pkiMsgSz, lv.idx,
                                    acc.decryptedKey, acc.recipFound, fault)
        merged(r) == [r EXCEPT !.kek = Worst(acc.kek, r.kek),
                               !.secret = Worst(acc.secret, r.secret)]
        next(r, kind) ==
            IF r.ret # 0 THEN merged(r) @@ [tried |-> Append(tried, kind)]
            ELSE DecodeRecipientLoop(pkcs7_, pkiMsg, pkiMsgSz, r.idx,
                                     merged(r), Append(tried, kind), uninit,
                                     fault)
    IN
    IF acc.recipFound # 0 THEN stop
    ELSE IF s.ret > 0
    THEN IF sv.ret < 0 THEN stop
         ELSE IF sv.val # 0
         THEN [acc EXCEPT !.ret = ASN_VERSION_E] @@ [tried |-> tried]
         ELSE next(ktri, "ktri")
    ELSE IF IntAt(pkiMsg, savedIdx) = ContextTag(1)
    THEN IF l.ret < 0
         THEN [acc EXCEPT !.ret = ASN_PARSE_E] @@ [tried |-> tried]
         ELSE IF lv.ret < 0 THEN stop
         ELSE IF lv.val # 3
         THEN [acc EXCEPT !.ret = ASN_VERSION_E] @@ [tried |-> tried]
         ELSE next(kari, "kari")
    ELSE stop

\* [ret, idx, recipFound, decryptedKey, keyAgreeOID, kek, secret, tried]
wc_PKCS7_DecodeRecipientInfos(pkcs7_, pkiMsg, pkiMsgSz, idx, uninit, fault) ==
    DecodeRecipientLoop(pkcs7_, pkiMsg, pkiMsgSz, idx,
        RecipResult(0, idx, 0, <<>>, pkcs7_.keyAgreeOID, Unused, Unused),
        <<>>, uninit, fault)

\* a return of the decoder: the value, the bytes written to output, the
\* session, what the key buffers hold at the return, the recipients tried
DecodeResult(code, written, pkcs7_, decryptedKey, r) ==
    [ret |-> code, out |-> written, p |-> pkcs7_,
     decryptedKey |-> decryptedKey, kek |-> r.kek, secret |-> r.secret,
     tried |-> r.tried, recipFound |-> r.recipFound]

\* the decoder from the EncryptedContentInfo on; r is the result of the
\* RecipientInfos
DecodeEncryptedContent(pkcs7_, pkiMsg, pkiMsgSz, r, fault) ==
    LET held == IF r.decryptedKey = <<>> THEN Unused ELSE Live
        fail(code) == DecodeResult(code, <<>>, pkcs7_, held, r)
        s == GetSequence(pkiMsg, r.idx, pkiMsgSz)
    IN
    Value([ct \in {GetObjectId(pkiMsg, s.idx, pkiMsgSz)} |->
    Value([a \in {GetAlgoId(pkiMsg, ct.idx, pkiMsgSz)} |->
    LET blockKeySz == wc_PKCS7_GetOIDKeySize(a.val)
        expBlockSz == wc_PKCS7_GetOIDBlockSize(a.val)
        li == GetLength(pkiMsg, a.idx + 1, pkiMsgSz)
        tmpIv == Slice(pkiMsg, li.idx, li.val)
        cIdx == li.idx + li.val
        explicitOctet == IntAt(pkiMsg, cIdx) = ContextTag(0)
        lc == GetLength(pkiMsg, cIdx + 1, pkiMsgSz)
        lo == GetLength(pkiMsg, lc.idx + 1, pkiMsgSz)
    IN
    Value([e \in {IF explicitOctet THEN lo ELSE lc} |->
    LET encryptedContentSz == e.val
    IN
    Value([d \in {wc_PKCS7_DecryptContent(a.val, r.decryptedKey, blockKeySz,
                      tmpIv, expBlockSz, Slice(pkiMsg, e.idx, encryptedContentSz),
                      fault = "decrypt")} |->
    LET padLen == Byte(IntOf(d.out[encryptedContentSz]))
    IN
    IF s.ret < 0 THEN fail(ASN_PARSE_E)
    ELSE IF ct.ret < 0 THEN fail(ASN_PARSE_E)
    ELSE IF a.ret < 0 THEN fail(ASN_PARSE_E)
    ELSE IF blockKeySz < 0 THEN fail(blockKeySz)
    ELSE IF expBlockSz < 0 THEN fail(expBlockSz)
    ELSE IF IntAt(pkiMsg, a.idx) # ASN_OCTET_STRING THEN fail(ASN_PARSE_E)
    ELSE IF li.ret < 0 THEN fail(ASN_PARSE_E)
    ELSE IF li.val # expBlockSz THEN fail(ASN_PARSE_E)
    ELSE IF ~explicitOctet /\ IntAt(pkiMsg, cIdx) # ASN_CONTEXT_SPECIFIC
    THEN fail(ASN_PARSE_E)
    ELSE IF lc.ret <= 0 THEN fail(ASN_PARSE_E)
    ELSE IF explicitOctet /\ IntAt(pkiMsg, lc.idx) # ASN_OCTET_STRING
    THEN fail(ASN_PARSE_E)
    ELSE IF explicitOctet /\ lo.ret <= 0 THEN fail(ASN_PARSE_E)
    ELSE IF d.ret # 0 THEN fail(d.ret)
    ELSE DecodeResult(encryptedContentSz - padLen,
                      Slice(d.out, 0, encryptedContentSz - padLen),
                      pkcs7_, Zeroed, r)])])])])

\* no recipient decoded
NoRecipients ==
    [kek |-> Unused, secret |-> Unused, tried |-> <<>>, recipFound |-> 0]

\* [ret, out, p, decryptedKey, kek, secret, tried]
wc_PKCS7_DecodeEnvelopedData(pkcs7_, pkiMsg, pkiMsgSz, outputSz, uninit, fault) ==
    LET early(code) == DecodeResult(code, <<>>, pkcs7_, Unused, NoRecipients)
        s0 == GetSequence(pkiMsg, 0, pkiMsgSz)
    IN
    Value([ct \in {GetObjectId(pkiMsg, s0.idx, pkiMsgSz)} |->
    LET l0 == GetLength(pkiMsg, ct.idx + 1, pkiMsgSz)
        s1 == GetSequence(pkiMsg, l0.idx, pkiMsgSz)
        v == GetMyVersion(pkiMsg, s1.idx, pkiMsgSz)
        set == GetSet(pkiMsg, v.idx, pkiMsgSz)
    IN
    Value([r \in {wc_PKCS7_DecodeRecipientInfos(pkcs7_, pkiMsg, pkiMsgSz, set.idx,
                                                uninit, fault)} |->
    LET p == [pkcs7_ EXCEPT !.keyAgreeOID = r.keyAgreeOID]
        held == IF r.decryptedKey = <<>> THEN Unused ELSE Live
    IN
    IF pkcs7_.singleCert = <<>> THEN early(BAD_FUNC_ARG)
    ELSE IF pkiMsgSz = 0 \/ outputSz = 0 THEN early(BAD_FUNC_ARG)
    ELSE IF s0.ret < 0 THEN early(ASN_PARSE_E)
    ELSE IF ct.ret < 0 THEN early(ASN_PARSE_E)
    ELSE IF ct.val # ENVELOPED_DATA THEN early(PKCS7_OID_E)
    ELSE IF IntAt(pkiMsg, ct.idx) # ContextTag(0) THEN early(ASN_PARSE_E)
    ELSE IF l0.ret < 0 THEN early(ASN_PARSE_E)
    ELSE IF s1.ret < 0 THEN early(ASN_PARSE_E)
    ELSE IF v.ret < 0 THEN early(ASN_PARSE_E)
    ELSE IF \/ (pkcs7_.publicKeyOID = RSAk /\ v.val # 0)
            \/ (pkcs7_.publicKeyOID = ECDSAk /\ v.val # 2)
    THEN early(ASN_VERSION_E)
    ELSE IF set.ret < 0 THEN early(ASN_PARSE_E)
    ELSE IF r.ret # 0 THEN DecodeResult(r.ret, <<>>, p, held, r)
    ELSE IF r.recipFound = 0
    THEN DecodeResult(PKCS7_RECIP_E, <<>>, p, held, r)
    ELSE DecodeEncryptedContent(p, pkiMsg, pkiMsgSz, r, fault)])])

----------------------------------------------------------------------------
(* The EnvelopedData specification: a sender encodes for the certificate   *)
(* of its session, or a peer sends a message of its own make; a receiver   *)
(* binds a certificate and a private key and decodes.                      *)

\* certificates of other parties: another issuer, the same issuer with
\* another serial number, another ECC key
OtherRsaCert == Cert(3, 1, RSAk, 3, 3)
SiblingRsaCert == Cert(1, 2, RSAk, 3, 3)
OtherEccCert == Cert(2, 2, ECDSAk, 4, 4)

\* the certificates a session is bound to
EnvCerts == {RsaCert, EccCert}

\* the recipients a peer puts before the last one (<<>>: none)
FirstRecipients == {<<>>, OtherRsaCert, SiblingRsaCert, OtherEccCert}

\* contents enveloped
EnvContents == {<<<<7>>>>, <<<<7>>, <<8>>, <<1>>>>}

\* content-encryption algorithms set in a session; 1 is not supported
EncryptOIDs == {AES128CBCb, DES3b, 1}

\* content types set in a session; 0 is the value wc_PKCS7_Init leaves
ContentOIDs == {DATA, 0}

\* user keying material set in a session
Ukms == {<<>>, <<<<5>>>>}

\* sizes of the output buffer handed to the EnvelopedData encoder
EnvOutputSizes == {30, 400}

\* sizes of the output buffer handed to the EnvelopedData decoder
DecodeOutputSizes == {64}

\* failures of the environment injected into the encoder and the decoder
EncodeFaults == {NoFault, "rng", "rsaEncrypt", "makeKey", "sharedSecret",
                 "kdf", "keyWrap", "iv", "encrypt"}
DecodeFaults == {NoFault, "sharedSecret", "kdf", "decrypt"}

\* what the uninitialised encryptedKey buffer of wc_PKCS7_DecodeKtri may
\* hold: bytes that are no RSA ciphertext, or a stale ciphertext
UninitBuffers == {<<<<0>>>>, <<wc_RsaPublicEncrypt(<<-11, 0>>, 1)>>}

\* a session bound to cert, with the fields the application sets before it
\* encodes
EnvSession(cert, content, encryptOID, contentOID, ukm) ==
    [wc_PKCS7_InitWithCert(wc_PKCS7_Init(0, INVALID_DEVID), cert).p
        EXCEPT !.content = content,
               !.contentOID = contentOID,
               !.encryptOID = encryptOID,
               !.keyWrapOID = AES128_WRAP,
               !.keyAgreeOID = dhSinglePass_stdDH_sha256kdf_scheme,
               !.ukm = ukm]

NoDecode == [decryptedKey |-> Unused, kek |-> Unused, secret |-> Unused,
             tried |-> <<>>, recipFound |-> 0, outputSz |-> 0,
             uninit |-> <<>>, fault |-> NoFault]

NoEncode == [ret |-> 0, contentKeyPlain |-> Unused, kek |-> Unused,
             secret |-> Unused, fault |-> NoFault]

EnvMem ==
    [origin |-> "none", cert |-> <<>>, first |-> <<>>, version |-> -1,
     content |-> <<>>, contentOID |-> 0, encryptOID |-> 0,
     encode |-> NoEncode, receiverCert |-> <<>>, receiverKey |-> 0,
     decode |-> NoDecode]

InitEnveloped ==
    /\ pkcs7 = NoSession
    /\ wire = <<>>
    /\ ret = 0
    /\ out = <<>>
    /\ mem = EnvMem
    /\ call = [op |-> "start"]

\* wc_PKCS7_InitWithCert on the recipient certificate, then the fields the
\* application sets before it encodes
EnvSenderInit ==
    /\ call.op = "start"
    /\ \E cert \in EnvCerts, content \in EnvContents,
          encryptOID \in EncryptOIDs, contentOID \in ContentOIDs,
          ukm \in Ukms :
         /\ pkcs7' = EnvSession(cert, content, encryptOID, contentOID, ukm)
         /\ mem' = [mem EXCEPT !.cert = cert, !.content = content,
                               !.contentOID = contentOID,
                               !.encryptOID = encryptOID]
    /\ call' = [op |-> "sender"]
    /\ UNCHANGED <<wire, ret, out>>

EncodeEnvelopedData ==
    /\ call.op = "sender"
    /\ \E outputSz \in EnvOutputSizes, fault \in EncodeFaults :
         \E r \in {wc_PKCS7_EncodeEnvelopedData(pkcs7, outputSz, fault)} :
            /\ ret' = r.ret
            /\ out' = r.out
            /\ wire' = r.out
            /\ mem' = [mem EXCEPT
                         !.origin = "encoder",
                         !.version = IF Len(r.out) >= 12
                                     THEN IntOf(r.out[12]) ELSE -1,
                         !.encode = [ret |-> r.ret,
                                     contentKeyPlain |-> r.contentKeyPlain,
                                     kek |-> r.kek, secret |-> r.secret,
                                     fault |-> fault]]
    /\ call' = [op |-> "wc_PKCS7_EncodeEnvelopedData"]
    /\ UNCHANGED pkcs7

\* the RecipientInfo a peer builds for cert around the key cek
PeerRecipientInfo(cert, cek) ==
    IF cert = <<>> THEN <<>>
    ELSE IF ParseCert(cert).keyOID = RSAk
    THEN wc_CreateRecipientInfo(cert, RSAk, 16, cek, MAX_RECIP_SZ,
                                NoFault).out
    ELSE wc_CreateKeyAgreeRecipientInfo(
             EnvSession(cert, <<>>, 0, 0, <<>>), cert, ECDSAk, 16,
             AES128_WRAP, dhSinglePass_stdDH_sha256kdf_scheme, cek,
             MAX_RECIP_SZ, NoFault).out

\* a peer's EnvelopedData: the message w for one recipient with the
\* RecipientInfo first put before that recipient and the version set
PeerEnveloped(w, first, version) ==
    LET grown == {2, 7, 9, 14}
        at == 14
    IN  [i \in 1..(Len(w) + Len(first)) |->
            IF i = 12 THEN <<version>>
            ELSE IF i <= at
            THEN IF i \in grown THEN <<IntOf(w[i]) + Len(first)>> ELSE w[i]
            ELSE IF i <= at + Len(first) THEN first[i - at]
            ELSE w[i - Len(first)]]

PeerEnvelopedData ==
    /\ call.op = "start"
    /\ \E cert \in EnvCerts, first \in FirstRecipients, version \in {0, 2},
          content \in EnvContents :
         \E w \in {wc_PKCS7_EncodeEnvelopedData(
                      EnvSession(cert, content, AES128CBCb, DATA, <<>>),
                      400, NoFault).out} :
            /\ wire' = PeerEnveloped(w, PeerRecipientInfo(first, RngKey),
                                     version)
            /\ mem' = [mem EXCEPT !.origin = "peer", !.cert = cert,
                                  !.first = first, !.version = version,
                                  !.content = content, !.contentOID = DATA,
                                  !.encryptOID = AES128CBCb]
    /\ call' = [op |-> "peer"]
    /\ UNCHANGED <<pkcs7, ret, out>>

\* the receiver: a new structure bound to a certificate, with the private
\* key of that certificate or without a private key
EnvReceiverInit ==
    /\ \/ call.op = "peer"
       \/ call.op = "wc_PKCS7_EncodeEnvelopedData" /\ ret > 0
    /\ \E cert \in EnvCerts, hasKey \in BOOLEAN :
         LET i == wc_PKCS7_InitWithCert(wc_PKCS7_Init(0, INVALID_DEVID), cert)
             key == IF hasKey THEN i.p.publicKey ELSE 0
         IN /\ pkcs7' = [i.p EXCEPT !.privateKey = key]
            /\ ret' = i.ret
            /\ mem' = [mem EXCEPT !.receiverCert = cert, !.receiverKey = key]
    /\ call' = [op |-> "receiver"]
    /\ UNCHANGED <<wire, out>>

DecodeEnvelopedData ==
    /\ call.op = "receiver"
    /\ \E outputSz \in DecodeOutputSizes, uninit \in UninitBuffers,
          fault \in DecodeFaults :
         \E r \in {wc_PKCS7_DecodeEnvelopedData(pkcs7, wire, Len(wire),
                                                 outputSz, uninit, fault)} :
            /\ ret' = r.ret
            /\ out' = r.out
            /\ pkcs7' = r.p
            /\ mem' = [mem EXCEPT
                         !.decode = [decryptedKey |-> r.decryptedKey,
                                     kek |-> r.kek, secret |-> r.secret,
                                     tried |-> r.tried,
                                     recipFound |-> r.recipFound,
                                     outputSz |-> outputSz,
                                     uninit |-> uninit, fault |-> fault]]
    /\ call' = [op |-> "wc_PKCS7_DecodeEnvelopedData"]
    /\ UNCHANGED wire

NextEnveloped ==
    \/ EnvSenderInit
    \/ EncodeEnvelopedData
    \/ PeerEnvelopedData
    \/ EnvReceiverInit
    \/ DecodeEnvelopedData

SpecEnveloped == InitEnveloped /\ [][NextEnveloped]_vars

----------------------------------------------------------------------------
(* The two forms of the SignedData encoder: two sessions are set up alike, *)
(* certificates are added to both, one encodes into a single buffer and    *)
(* the other into a head and a foot.                                       *)

\* most certificates added with wc_PKCS7_AddCertificate
MaxAdded == 2

\* bytes that ParseCert rejects: a SEQUENCE that holds no certificate
NotACert == <<<<ASN_SEQUENCE + ASN_CONSTRUCTED>>, <<1>>, <<0>>>>

\* certificates added to a session; the last is no certificate
AddedCerts == {EccCert, OtherRsaCert, NotACert}

\* sizes of the buffers handed to the two forms of the encoder
HeadSizes == {10, 200}
FootSizes == {10, 200}
SingleSizes == {10, 200}

\* the record of an encoder call that has not been made
NoEncodeSigned ==
    [ret |-> 0, out |-> <<>>, out2 |-> <<>>, outputSz |-> NoBuffer,
     output2Sz |-> NoBuffer]

DetachedMem ==
    [cert |-> <<>>, content |-> <<>>, added |-> <<>>, twin |-> NoSession,
     calls |-> {}, sameDigest |-> TRUE,
     single |-> NoEncodeSigned, detached |-> NoEncodeSigned]

InitDetached ==
    /\ pkcs7 = NoSession
    /\ wire = <<>>
    /\ ret = 0
    /\ out = <<>>
    /\ mem = DetachedMem
    /\ call = [op |-> "start"]

\* wc_PKCS7_InitWithCert on the signer certificate and the fields the
\* application sets, in two sessions alike: pkcs7 and mem.twin
DetachedSignerInit ==
    /\ call.op = "start"
    /\ \E cert \in SignerCerts, content \in SignedContents \ {<<>>},
          n \in {0, 1},
          type \in {SID_ISSUER_AND_SERIAL_NUMBER, SID_SUBJECT_KEY_IDENTIFIER} :
         LET i == wc_PKCS7_InitWithCert(wc_PKCS7_Init(0, INVALID_DEVID), cert)
             app == [i.p EXCEPT !.content = content,
                                !.contentOID = DATA,
                                !.hashOID = SHA256h,
                                !.encryptOID = i.p.publicKeyOID,
                                !.privateKey = i.p.publicKey,
                                !.rng = 1,
                                !.signedAttribs =
                                    [k \in 1..n |-> CallerAttrib(k)]]
             t == wc_PKCS7_SetSignerIdentifierType(app, type)
         IN /\ pkcs7' = t.p
            /\ ret' = t.ret
            /\ mem' = [mem EXCEPT !.content = content, !.cert = cert,
                                  !.twin = t.p]
    /\ call' = [op |-> "signer"]
    /\ UNCHANGED <<wire, out>>

\* wc_PKCS7_InitWithCert on bytes that are no certificate: the call fails and
\* the application goes no further
DetachedSignerRejected ==
    /\ call.op = "start"
    /\ \E heap \in {0, 1} :
         \E i \in {wc_PKCS7_InitWithCert(wc_PKCS7_Init(heap, INVALID_DEVID),
                                         NotACert)} :
            /\ pkcs7' = i.p
            /\ ret' = i.ret
            /\ mem' = [mem EXCEPT !.cert = NotACert]
    /\ call' = [op |-> "rejected"]
    /\ UNCHANGED <<wire, out>>

\* wc_PKCS7_AddCertificate on both sessions
AddCertificate ==
    /\ call.op = "signer"
    /\ mem.calls = {}
    /\ Len(mem.added) < MaxAdded
    /\ \E derCert \in AddedCerts :
         LET a == wc_PKCS7_AddCertificate(pkcs7, derCert)
             b == wc_PKCS7_AddCertificate(mem.twin, derCert)
         IN /\ pkcs7' = a.p
            /\ ret' = a.ret
            /\ mem' = [mem EXCEPT !.twin = b.p,
                                  !.added = Append(@, derCert)]
    /\ UNCHANGED <<wire, out, call>>

\* wc_PKCS7_EncodeSignedData on the twin session
EncodeSingle ==
    /\ call.op \in {"signer", "wc_PKCS7_EncodeSignedData_ex"}
    /\ "single" \notin mem.calls
    /\ \E outputSz \in SingleSizes :
         \E r \in {wc_PKCS7_EncodeSignedData(mem.twin, outputSz, "intact",
                                              ZeroAttrib)} :
            /\ ret' = r.ret
            /\ out' = r.out
            /\ wire' = r.out
            /\ mem' = [mem EXCEPT !.twin = r.p,
                                  !.calls = @ \cup {"single"},
                                  !.single = [ret |-> r.ret, out |-> r.out,
                                              out2 |-> r.out2,
                                              outputSz |-> r.outputSz,
                                              output2Sz |-> r.output2Sz]]
    /\ call' = [op |-> "wc_PKCS7_EncodeSignedData"]
    /\ UNCHANGED pkcs7

\* wc_PKCS7_EncodeSignedData_ex on the session, with the digest of the
\* content or of something else; the caller puts head, content and foot
\* together
EncodeDetached ==
    /\ call.op \in {"signer", "wc_PKCS7_EncodeSignedData"}
    /\ "detached" \notin mem.calls
    /\ \E outputHeadSz \in HeadSizes, outputFootSz \in FootSizes \cup {NoBuffer},
          sameDigest \in BOOLEAN :
         \E r \in {wc_PKCS7_EncodeSignedData_ex(pkcs7,
                        Hash(pkcs7.hashOID,
                             IF sameDigest THEN pkcs7.content ELSE <<>>),
                        wc_HashGetDigestSize(pkcs7.hashOID),
                        outputHeadSz, outputFootSz, "intact", ZeroAttrib)} :
            /\ ret' = r.ret
            /\ out' = r.out
            /\ wire' = IF r.ret = 0 THEN r.out \o pkcs7.content \o r.out2
                       ELSE <<>>
            /\ pkcs7' = r.p
            /\ mem' = [mem EXCEPT !.calls = @ \cup {"detached"},
                                  !.sameDigest = sameDigest,
                                  !.detached = [ret |-> r.ret, out |-> r.out,
                                                out2 |-> r.out2,
                                                outputSz |-> r.outputSz,
                                                output2Sz |-> r.output2Sz]]
    /\ call' = [op |-> "wc_PKCS7_EncodeSignedData_ex"]

NextDetached ==
    \/ DetachedSignerInit
    \/ DetachedSignerRejected
    \/ AddCertificate
    \/ EncodeSingle
    \/ EncodeDetached

SpecDetached == InitDetached /\ [][NextDetached]_vars

----------------------------------------------------------------------------
(* The rebinding specification: a signer encodes, a peer reshapes the      *)
(* message (SignerInfo layout, eContent in parts, no digestAlgorithms,     *)
(* BER), and a receiver whose structure has been in use initialises it and *)
(* verifies.                                                               *)

\* heap hints and device identifiers of the receiver
Heaps == {0, 1}
DevIds == {INVALID_DEVID, 1}

\* w with the n cells from cell `from` on replaced by repl and the lengths
\* in the cells lens, all before `from`, grown by the difference
Splice(w, from, n, repl, lens) ==
    [i \in 1..(Len(w) - n + Len(repl)) |->
        IF i < from
        THEN IF i \in lens THEN <<IntOf(w[i]) + Len(repl) - n>> ELSE w[i]
        ELSE IF i < from + Len(repl) THEN repl[i - from + 1]
        ELSE w[i - Len(repl) + n]]

\* the message with its eContent as a constructed OCTET STRING of two parts
MultiPartContent(w) ==
    LET c0 == 14 + IntOf(w[14])
        n == IntOf(w[c0 + 9])
        content == SubSeq(w, c0 + 10, c0 + 9 + n)
        parts == <<<<ASN_OCTET_STRING + ASN_CONSTRUCTED>>, <<n + 4>>>>
                 \o SetOctetString(1) \o SubSeq(content, 1, 1)
                 \o SetOctetString(n - 1) \o SubSeq(content, 2, n)
    IN  Splice(w, c0 + 8, n + 2, parts, {2, 7, 9, c0 + 2, c0 + 7})

\* the message with an empty digestAlgorithms SET
EmptyDigestAlgorithms(w) ==
    Splice(w, 15, IntOf(w[14]), <<>>, {2, 7, 9, 14})

\* the message with an indefinite outermost length and end-of-contents
ToBer(w) ==
    <<w[1], <<ASN_INDEF_LENGTH>>>> \o SubSeq(w, 3, Len(w)) \o <<<<0>>, <<0>>>>

RebindMem ==
    [origin |-> "none", cert |-> <<>>, esd |-> NoEsd, content |-> <<>>,
     callerAttribs |-> <<>>, stack |-> "intact", tampered |-> -1,
     reshaped |-> FALSE, receiverCert |-> <<>>, allow |-> -1,
     verify |-> NoVerify, multiPart |-> FALSE, emptyDigests |-> FALSE,
     ber |-> FALSE, before |-> NoSession, init |-> NoSession]

InitRebind ==
    /\ pkcs7 = NoSession
    /\ wire = <<>>
    /\ ret = 0
    /\ out = <<>>
    /\ mem = RebindMem
    /\ call = [op |-> "start"]

PeerVariant ==
    /\ call.op = "peer"
    /\ mem.stack = "intact"
    /\ Len(mem.callerAttribs) <= 1
    /\ \E multiPart \in {FALSE, mem.content # <<>>},
          emptyDigests \in BOOLEAN, ber \in BOOLEAN :
         LET w1 == IF multiPart THEN MultiPartContent(wire) ELSE wire
             w2 == IF emptyDigests THEN EmptyDigestAlgorithms(w1) ELSE w1
             w3 == IF ber THEN ToBer(w2) ELSE w2
         IN /\ wire' = w3
            /\ mem' = [mem EXCEPT !.multiPart = multiPart,
                                  !.emptyDigests = emptyDigests,
                                  !.ber = ber]
    /\ call' = [op |-> "variant"]
    /\ UNCHANGED <<pkcs7, ret, out>>

\* the receiver: a structure from wc_PKCS7_New or wc_PKCS7_Init that has
\* been in use is initialised with a certificate or without
RebindReceiverInit ==
    /\ call.op = "variant"
    /\ \E heap \in Heaps, devId \in DevIds, dynamic \in BOOLEAN,
          cert \in {<<>>, mem.cert} :
         LET new == IF dynamic THEN wc_PKCS7_New(heap, devId)
                    ELSE wc_PKCS7_Init(heap, devId)
             used == [new EXCEPT !.content = mem.content,
                                 !.hashOID = SHA256h,
                                 !.rng = 1,
                                 !.noDegenerate = 1,
                                 !.der = mem.content,
                                 !.contentDynamic = mem.content]
             i == wc_PKCS7_InitWithCert(used, cert)
         IN /\ pkcs7' = i.p
            /\ ret' = i.ret
            /\ mem' = [mem EXCEPT !.allow = -1, !.receiverCert = cert,
                                  !.before = used, !.init = i.p]
    /\ call' = [op |-> "receiver"]
    /\ UNCHANGED <<wire, out>>

NextRebind ==
    \/ SignerInit
    \/ EncodeSignedData
    \/ PeerSignedData
    \/ PeerVariant
    \/ RebindReceiverInit
    \/ AllowDegenerate
    \/ VerifySignedData

SpecRebind == InitRebind /\ [][NextRebind]_vars

----------------------------------------------------------------------------
(* The buffer specification: a session of one kind is set up and its       *)
(* encoder is called on a buffer of the caller; the EncryptedData message  *)
(* is decoded again and the decoded attributes are queried.                *)

\* what the caller's buffers hold before a call
Fill == <<170>>

\* sizes of the caller's buffers
BufferSizes == {4, 400}

\* sizes of the buffers handed to the decoder and to the attribute lookup
SmallSizes == {2, 64}

\* the i-th unprotected attribute: an OID of two cells and a value
UnprotectedAttrib(i) ==
    [oid |-> <<<<ASN_OBJECT_ID>>, <<2>>, <<100 + i>>, <<1>>>>,
     value |-> <<<<ASN_OCTET_STRING>>, <<2>>, <<i>>, <<i>>>>]

\* the OIDs queried: that of the first and of the second attribute, a
\* leading part of the first, the first with a cell more, none, and one
\* that no attribute has
QueriedOids ==
    {<<<<101>>, <<1>>>>, <<<<102>>, <<1>>>>, <<<<101>>>>,
     <<<<101>>, <<1>>, <<9>>>>, <<>>, <<<<55>>>>}

\* the key the two parties of an EncryptedData share
SharedKey == <<-11, 2>>

\* a caller's buffer after cells were written at its start
After(buffer, written) ==
    IF Len(written) >= Len(buffer) THEN written
    ELSE written \o SubSeq(buffer, Len(written) + 1, Len(buffer))

BufMem ==
    [kind |-> "none", buffer |-> <<>>, buffer2 |-> <<>>, after2 |-> <<>>,
     content |-> <<>>, attribs |-> <<>>, decodedBefore |-> <<>>,
     copied |-> 0]

InitBuffers ==
    /\ pkcs7 = NoSession
    /\ wire = <<>>
    /\ ret = 0
    /\ out = <<>>
    /\ mem = BufMem
    /\ call = [op |-> "start"]

\* the session of an encoder: wc_PKCS7_Init or wc_PKCS7_InitWithCert, then
\* the fields the application sets
BufferSessionInit ==
    /\ call.op = "start"
    /\ \E kind \in {"data", "signed", "enveloped", "encrypted"},
          cert \in SignerCerts, content \in EnvContents,
          encryptOID \in {AES128CBCb, DES3b}, n \in 0..2 :
         LET plain == [wc_PKCS7_Init(0, INVALID_DEVID)
                          EXCEPT !.content = content]
             bound == wc_PKCS7_InitWithCert(wc_PKCS7_Init(0, INVALID_DEVID),
                                            cert).p
             signer == [bound EXCEPT !.content = content,
                                     !.contentOID = DATA,
                                     !.hashOID = SHA256h,
                                     !.encryptOID = bound.publicKeyOID,
                                     !.privateKey = bound.publicKey,
                                     !.rng = 1]
             shared == [plain EXCEPT
                          !.contentOID = DATA,
                          !.encryptOID = encryptOID,
                          !.encryptionKey = SharedKey,
                          !.encryptionKeySz =
                              wc_PKCS7_GetOIDKeySize(encryptOID),
                          !.unprotectedAttribs =
                              [k \in 1..n |-> UnprotectedAttrib(k)]]
         IN /\ kind \in {"data", "signed"} => encryptOID = AES128CBCb
            /\ kind \in {"data", "encrypted"} => cert = RsaCert
            /\ kind # "encrypted" => n = 0
            /\ pkcs7' = IF kind = "data" THEN plain
                        ELSE IF kind = "signed" THEN signer
                        ELSE IF kind = "enveloped"
                        THEN EnvSession(cert, content, encryptOID, DATA, <<>>)
                        ELSE shared
            /\ mem' = [mem EXCEPT !.kind = kind, !.content = content,
                                  !.attribs = [k \in 1..n |->
                                                  UnprotectedAttrib(k)]]
    /\ call' = [op |-> "session"]
    /\ UNCHANGED <<wire, ret, out>>

EncodeData ==
    /\ call.op = "session"
    /\ mem.kind = "data"
    /\ \E outputSz \in BufferSizes :
         \E r \in {wc_PKCS7_EncodeData(pkcs7, outputSz)} :
            /\ ret' = r.ret
            /\ out' = After(Repeat(Fill, outputSz), r.out)
            /\ mem' = [mem EXCEPT !.buffer = Repeat(Fill, outputSz)]
    /\ call' = [op |-> "wc_PKCS7_EncodeData"]
    /\ UNCHANGED <<pkcs7, wire>>

\* wc_PKCS7_EncodeSignedData, and wc_PKCS7_EncodeSignedData_ex with the
\* digest of the content, on the caller's buffers
EncodeSignedBuffers ==
    /\ call.op = "session"
    /\ mem.kind = "signed"
    /\ \E outputSz \in BufferSizes, output2Sz \in BufferSizes \cup {NoBuffer} :
         \E r \in {IF output2Sz = NoBuffer
                   THEN wc_PKCS7_EncodeSignedData(pkcs7, outputSz, "intact",
                                                  ZeroAttrib)
                   ELSE wc_PKCS7_EncodeSignedData_ex(pkcs7,
                            Hash(pkcs7.hashOID, pkcs7.content),
                            wc_HashGetDigestSize(pkcs7.hashOID),
                            outputSz, output2Sz, "intact", ZeroAttrib)} :
            /\ ret' = r.ret
            /\ out' = After(Repeat(Fill, outputSz), r.out)
            /\ pkcs7' = r.p
            /\ mem' = [mem EXCEPT
                         !.buffer = Repeat(Fill, outputSz),
                         !.buffer2 = IF output2Sz = NoBuffer THEN <<>>
                                     ELSE Repeat(Fill, output2Sz),
                         !.after2 = IF output2Sz = NoBuffer THEN <<>>
                                    ELSE After(Repeat(Fill, output2Sz),
                                               r.out2)]
            /\ call' = [op |-> IF output2Sz = NoBuffer
                               THEN "wc_PKCS7_EncodeSignedData"
                               ELSE "wc_PKCS7_EncodeSignedData_ex"]
    /\ UNCHANGED wire

EncodeEnvelopedBuffer ==
    /\ call.op = "session"
    /\ mem.kind = "enveloped"
    /\ \E outputSz \in BufferSizes :
         \E r \in {wc_PKCS7_EncodeEnvelopedData(pkcs7, outputSz, NoFault)} :
            /\ ret' = r.ret
            /\ out' = After(Repeat(Fill, outputSz), r.out)
            /\ mem' = [mem EXCEPT !.buffer = Repeat(Fill, outputSz)]
    /\ call' = [op |-> "wc_PKCS7_EncodeEnvelopedData"]
    /\ UNCHANGED <<pkcs7, wire>>

EncodeEncryptedData ==
    /\ call.op = "session"
    /\ mem.kind = "encrypted"
    /\ \E outputSz \in BufferSizes, fault \in {NoFault, "iv"} :
         \E r \in {wc_PKCS7_EncodeEncryptedData(pkcs7, outputSz, fault)} :
            /\ ret' = r.ret
            /\ out' = After(Repeat(Fill, outputSz), r.out)
            /\ wire' = r.out
            /\ mem' = [mem EXCEPT !.buffer = Repeat(Fill, outputSz)]
    /\ call' = [op |-> "wc_PKCS7_EncodeEncryptedData"]
    /\ UNCHANGED pkcs7

\* the message is decoded by a session that holds the shared key
DecodeEncryptedData ==
    /\ call.op = "wc_PKCS7_EncodeEncryptedData"
    /\ ret > 0
    /\ \E outputSz \in SmallSizes, fault \in {NoFault, "decrypt"} :
         \E r \in {wc_PKCS7_DecodeEncryptedData(pkcs7, wire, Len(wire),
                                                 outputSz, fault)} :
            /\ ret' = r.ret
            /\ out' = After(Repeat(Fill, outputSz), r.out)
            /\ pkcs7' = r.p
            /\ mem' = [mem EXCEPT !.buffer = Repeat(Fill, outputSz),
                                  !.copied = Len(r.out)]
    /\ call' = [op |-> "wc_PKCS7_DecodeEncryptedData"]
    /\ UNCHANGED wire

GetAttributeValue ==
    /\ call.op = "wc_PKCS7_DecodeEncryptedData"
    /\ \E oid \in QueriedOids, hasOut \in BOOLEAN, outSz \in SmallSizes :
         \E r \in {wc_PKCS7_GetAttributeValue(pkcs7, oid, Len(oid), hasOut,
                                               outSz)} :
            /\ ret' = r.ret
            /\ out' = IF hasOut THEN After(Repeat(Fill, outSz), r.out)
                      ELSE <<>>
            /\ mem' = [mem EXCEPT !.buffer = IF hasOut
                                             THEN Repeat(Fill, outSz)
                                             ELSE <<>>,
                                  !.decodedBefore = pkcs7.decodedAttrib]
            /\ call' = [op |-> "wc_PKCS7_GetAttributeValue", oid |-> oid,
                        hasOut |-> hasOut, outSz |-> outSz,
                        outSzAfter |-> r.outSz]
    /\ UNCHANGED <<pkcs7, wire>>

NextBuffers ==
    \/ BufferSessionInit
    \/ EncodeData
    \/ EncodeSignedBuffers
    \/ EncodeEnvelopedBuffer
    \/ EncodeEncryptedData
    \/ DecodeEncryptedData
    \/ GetAttributeValue

SpecBuffers == InitBuffers /\ [][NextBuffers]_vars

----------------------------------------------------------------------------
(* The candidate certificates of the verifier: a signer adds certificates  *)
(* of other parties to its session and encodes; the receiver verifies the  *)
(* message, whose certificates set then holds more than one certificate.   *)

\* most certificates a signer adds to its own
MaxExtra == 2

\* the certificates a signer adds
ExtraCerts == {OtherRsaCert, OtherEccCert, NotACert}

CandidatesMem == SignedMem @@ [added |-> <<>>]

InitCandidates ==
    /\ pkcs7 = NoSession
    /\ wire = <<>>
    /\ ret = 0
    /\ out = <<>>
    /\ mem = CandidatesMem
    /\ call = [op |-> "start"]

\* wc_PKCS7_InitWithCert on the signer certificate, then the fields the
\* application sets before it encodes
CandidatesSignerInit ==
    /\ call.op = "start"
    /\ \E cert \in SignerCerts, n \in {0, 1},
          type \in {SID_ISSUER_AND_SERIAL_NUMBER, SID_SUBJECT_KEY_IDENTIFIER} :
         LET i == wc_PKCS7_InitWithCert(wc_PKCS7_Init(0, INVALID_DEVID), cert)
             app == [i.p EXCEPT !.content = <<<<7>>, <<8>>>>,
                                !.contentOID = DATA,
                                !.hashOID = SHA256h,
                                !.encryptOID = i.p.publicKeyOID,
                                !.privateKey = i.p.publicKey,
                                !.rng = 1,
                                !.signedAttribs =
                                    [k \in 1..n |-> CallerAttrib(k)]]
             t == wc_PKCS7_SetSignerIdentifierType(app, type)
         IN /\ pkcs7' = t.p
            /\ ret' = t.ret
            /\ mem' = [mem EXCEPT !.content = app.content, !.cert = cert,
                                  !.callerAttribs = app.signedAttribs]
    /\ call' = [op |-> "signer"]
    /\ UNCHANGED <<wire, out>>

\* wc_PKCS7_AddCertificate on the signer's session
CandidatesAddCertificate ==
    /\ call.op = "signer"
    /\ Len(mem.added) < MaxExtra
    /\ \E derCert \in ExtraCerts :
         LET a == wc_PKCS7_AddCertificate(pkcs7, derCert)
         IN /\ pkcs7' = a.p
            /\ ret' = a.ret
            /\ mem' = [mem EXCEPT !.added = Append(@, derCert)]
    /\ UNCHANGED <<wire, out, call>>

\* wc_PKCS7_EncodeSignedData into a buffer that is large enough
CandidatesEncode ==
    /\ call.op = "signer"
    /\ \E r \in {wc_PKCS7_EncodeSignedData(pkcs7, 400, "intact", ZeroAttrib)} :
         /\ ret' = r.ret
         /\ out' = r.out
         /\ wire' = r.out
         /\ pkcs7' = r.p
         /\ mem' = [mem EXCEPT !.origin = "encoder", !.esd = r.esd]
    /\ call' = [op |-> "wc_PKCS7_EncodeSignedData"]

NextCandidates ==
    \/ CandidatesSignerInit
    \/ CandidatesAddCertificate
    \/ CandidatesEncode
    \/ PeerSignedData
    \/ ReceiverInit
    \/ VerifySignedData

SpecCandidates == InitCandidates /\ [][NextCandidates]_vars

----------------------------------------------------------------------------
(* Signatures of other producers: a peer takes the message of a signer and *)
(* puts its own signature in it, made over the DigestInfo, over the bare   *)
(* digest or over something else, and may name DSA as the signature        *)
(* algorithm.                                                              *)

\* what the peer signs
SignedOver == {"pkcs7Digest", "plainDigest", "other"}

ResignMem == SignedMem @@ [over |-> "none", sigOID |-> 0]

InitResign ==
    /\ pkcs7 = NoSession
    /\ wire = <<>>
    /\ ret = 0
    /\ out = <<>>
    /\ mem = ResignMem
    /\ call = [op |-> "start"]

\* the signature of the private key of the signer certificate cert over in
SignWith(cert, in) ==
    IF ParseCert(cert).keyOID = RSAk
    THEN wc_RsaSSL_Sign(in, ParseCert(cert).publicKey)
    ELSE wc_ecc_sign_hash(in, ParseCert(cert).publicKey)

\* the index in w of the OID of the digestEncryptionAlgorithm: the last
\* AlgorithmIdentifier before the signature, with NULL parameters for RSA
SigAlgoIdx(w, cert) ==
    IF ParseCert(cert).keyOID = RSAk THEN Len(w) - 5 ELSE Len(w) - 3

PeerResign ==
    /\ call.op = "peer"
    /\ mem.over = "none"
    /\ \E over \in SignedOver, dsa \in BOOLEAN :
         LET d == wc_PKCS7_BuildSignedDataDigest(pkcs7,
                      mem.esd.flatSignedAttribs, mem.esd.signedAttribsSz)
             in == IF over = "pkcs7Digest" THEN d.pkcs7Digest
                   ELSE IF over = "plainDigest" THEN d.plainDigest
                   ELSE <<<<0>>>>
             at == SigAlgoIdx(wire, mem.cert)
             sigOID == IF dsa THEN CTC_SHAwDSA ELSE IntOf(wire[at])
         IN /\ wire' = [wire EXCEPT ![Len(wire)] = SignWith(mem.cert, in)[1],
                                    ![at] = <<sigOID>>]
            /\ mem' = [mem EXCEPT !.over = over, !.sigOID = sigOID]
    /\ UNCHANGED <<pkcs7, ret, out, call>>

NextResign ==
    \/ CandidatesSignerInit
    \/ CandidatesEncode
    \/ PeerSignedData
    \/ PeerResign
    \/ ReceiverInit
    \/ VerifySignedData

SpecResign == InitResign /\ [][NextResign]_vars

----------------------------------------------------------------------------
(* The heap of a session: a structure is made, initialised, given          *)
(* certificates, used to encode and to verify, and released with           *)
(* wc_PKCS7_Free.  mem.heap counts the regions allocated and not released. *)

\* most calls of wc_PKCS7_InitWithCert on one structure
MaxInits == 2

\* the certificates given to wc_PKCS7_InitWithCert (<<>>: none)
HeapCerts == {<<>>, RsaCert, NotACert}

\* what allocated memory may hold where a pointer is read from it
UninitPointers == {"null", "garbage"}

NoRegions ==
    [nodes |-> 0, attribs |-> 0, der |-> 0, contentDynamic |-> 0,
     session |-> 0, caller |-> 0]

Regions(kind, n) == [NoRegions EXCEPT ![kind] = n]

\* the heap h after regions a were allocated and regions r released
HeapAfter(h, a, r) == [k \in DOMAIN h |-> h[k] + a[k] - r[k]]

\* the message a peer sends: a SignedData of an RSA signer with one signed
\* attribute of the caller, its eContent in parts or not, in BER or in DER
HeapMessage(multiPart, ber) ==
    LET i == wc_PKCS7_InitWithCert(wc_PKCS7_Init(0, INVALID_DEVID), RsaCert)
        app == [i.p EXCEPT !.content = <<<<7>>, <<8>>>>,
                           !.contentOID = DATA,
                           !.hashOID = SHA256h,
                           !.encryptOID = i.p.publicKeyOID,
                           !.privateKey = i.p.publicKey,
                           !.rng = 1,
                           !.signedAttribs = <<CallerAttrib(1)>>]
        e == wc_PKCS7_EncodeSignedData(app, 400, "intact", ZeroAttrib)
        w0 == PeerSignerInfo(e.out, e.esd)
        w1 == IF multiPart THEN MultiPartContent(w0) ELSE w0
    IN  IF ber THEN ToBer(w1) ELSE w1

HeapMem ==
    [heap |-> NoRegions, inits |-> 0, added |-> 0, verified |-> FALSE,
     next |-> "null", before |-> NoSession, steps |-> <<>>]

InitHeap ==
    /\ pkcs7 = NoSession
    /\ wire = <<>>
    /\ ret = 0
    /\ out = <<>>
    /\ mem = HeapMem
    /\ call = [op |-> "start"]

\* wc_PKCS7_New, or wc_PKCS7_Init on a structure of the caller
HeapSessionNew ==
    /\ call.op = "start"
    /\ \E dynamic \in BOOLEAN :
         /\ pkcs7' = IF dynamic THEN wc_PKCS7_New(0, INVALID_DEVID)
                     ELSE wc_PKCS7_Init(0, INVALID_DEVID)
         /\ mem' = [mem EXCEPT !.heap = Regions("session",
                                                IF dynamic THEN 1 ELSE 0)]
    /\ call' = [op |-> "session"]
    /\ UNCHANGED <<wire, ret, out>>

InUse == call.op \notin {"start", "wc_PKCS7_Free"}

\* wc_PKCS7_InitWithCert, then the fields the application sets when the
\* call did not fail
HeapInitWithCert ==
    /\ InUse
    /\ mem.inits < MaxInits
    /\ \E cert \in HeapCerts :
         LET i == wc_PKCS7_InitWithCert(pkcs7, cert)
             app == [i.p EXCEPT !.content = <<<<7>>, <<8>>>>,
                                !.contentOID = DATA,
                                !.hashOID = SHA256h,
                                !.encryptOID = i.p.publicKeyOID,
                                !.privateKey = i.p.publicKey,
                                !.rng = 1]
         IN /\ pkcs7' = IF i.ret = 0 THEN app ELSE i.p
            /\ ret' = i.ret
            /\ mem' = [mem EXCEPT
                         !.heap = HeapAfter(@, Regions("nodes",
                                                Len(i.p.certList)),
                                            NoRegions),
                         !.inits = @ + 1,
                         !.next = "null"]
    /\ call' = [op |-> "wc_PKCS7_InitWithCert"]
    /\ UNCHANGED <<wire, out>>

\* wc_PKCS7_AddCertificate; mem.next is the next pointer of the last node
\* of the list
HeapAddCertificate ==
    /\ InUse
    /\ mem.added < MaxAdded
    /\ \E uninit \in UninitPointers :
         LET a == wc_PKCS7_AddCertificate(pkcs7, OtherRsaCert)
         IN /\ pkcs7' = a.p
            /\ ret' = a.ret
            /\ mem' = [mem EXCEPT
                         !.heap = HeapAfter(@, Regions("nodes", 1), NoRegions),
                         !.added = @ + 1,
                         !.before = pkcs7,
                         !.next = IF pkcs7.certList = <<>>
                                  THEN AddCertificate_next(pkcs7, uninit)
                                  ELSE @]
    /\ call' = [op |-> "wc_PKCS7_AddCertificate"]
    /\ UNCHANGED <<wire, out>>

\* wc_PKCS7_EncodeSignedData: the nodes of the certificate list are released
\* where the encoder got as far as wc_PKCS7_FreeCertSet
\* (a list that does not end in NULL is not walked: the walk of the encoder
\* is undefined there)
HeapEncodeSigned ==
    /\ InUse
    /\ call.op # "wc_PKCS7_EncodeSignedData"
    /\ mem.next = "null"
    /\ \E r \in {wc_PKCS7_EncodeSignedData(pkcs7, 400, "intact", ZeroAttrib)} :
         /\ ret' = r.ret
         /\ out' = r.out
         /\ pkcs7' = r.p
         /\ mem' = [mem EXCEPT
                      !.heap = HeapAfter(@, NoRegions,
                                   Regions("nodes", Len(pkcs7.certList)
                                                    - Len(r.p.certList)))]
    /\ call' = [op |-> "wc_PKCS7_EncodeSignedData"]
    /\ UNCHANGED wire

\* wc_PKCS7_VerifySignedData on a message of a peer, once: the DER form of
\* a BER message, the joined parts of the eContent, the node of the
\* certificate the structure is bound to anew and the decoded attributes
\* are allocated
HeapVerify ==
    /\ InUse
    /\ ~mem.verified
    /\ \E multiPart \in BOOLEAN, ber \in BOOLEAN :
         \E m \in {HeapMessage(multiPart, ber)} :
         \E r \in {wc_PKCS7_VerifySignedData(pkcs7, m, Len(m), <<>>)} :
            LET rebound == r.p.cert[1] # <<>>
                kept == IF rebound THEN 0 ELSE Len(pkcs7.decodedAttrib)
                a == [NoRegions EXCEPT
                        !.der = IF r.p.der # <<>> THEN 1 ELSE 0,
                        !.contentDynamic =
                            IF r.p.contentDynamic # <<>> THEN 1 ELSE 0,
                        !.nodes = IF rebound THEN Len(r.p.certList) ELSE 0,
                        !.attribs = 3 * (Len(r.p.decodedAttrib) - kept)]
            IN /\ ret' = r.ret
               /\ pkcs7' = r.p
               /\ wire' = m
               /\ mem' = [mem EXCEPT !.heap = HeapAfter(@, a, NoRegions),
                                     !.verified = TRUE,
                                     !.next = IF rebound THEN "null" ELSE @]
    /\ call' = [op |-> "wc_PKCS7_VerifySignedData"]
    /\ UNCHANGED out

\* wc_PKCS7_Free
HeapFree ==
    /\ InUse
    /\ \E f \in {wc_PKCS7_Free(pkcs7)} :
         /\ pkcs7' = f.p
         /\ mem' = [mem EXCEPT !.heap = HeapAfter(@, NoRegions, f.released),
                               !.before = pkcs7,
                               !.steps = f.steps]
    /\ call' = [op |-> "wc_PKCS7_Free"]
    /\ UNCHANGED <<wire, ret, out>>

NextHeap ==
    \/ HeapSessionNew
    \/ HeapInitWithCert
    \/ HeapAddCertificate
    \/ HeapEncodeSigned
    \/ HeapVerify
    \/ HeapFree

SpecHeap == InitHeap /\ [][NextHeap]_vars

----------------------------------------------------------------------------
(* The pad specification for long inputs: inputs as long as the absolute   *)
(* value of an error code and longer, block sizes 0 and those of the       *)
(* ciphers.                                                                *)

\* lengths of the input: 1, and lengths around -BAD_FUNC_ARG
LongInSizes == {1, 100, -BAD_FUNC_ARG - 1, -BAD_FUNC_ARG, -BAD_FUNC_ARG + 1,
                -BAD_FUNC_ARG + 7}

\* sizes of the output buffer handed in with a long input
LongOutSizes == {1, 7, 100, 181, 200}

LongPadArgs ==
    {[op |-> "args", in |-> Repeat(1, n), blockSz |-> b, outSz |-> o] :
        n \in LongInSizes, b \in {0, 8, 16}, o \in LongOutSizes}

InitPadLong ==
    /\ pkcs7 = NoSession
    /\ wire = <<>>
    /\ ret = 0
    /\ out = <<>>
    /\ mem = NoMem
    /\ call \in LongPadArgs

NextPadLong == PadData

SpecPadLong == InitPadLong /\ [][NextPadLong]_vars

----------------------------------------------------------------------------
(* The recipient specification: wc_CreateRecipientInfo is applied to a     *)
(* certificate, a content-encryption key and an output buffer of every     *)
(* size up to MaxRecipOut.                                                 *)

\* the largest output buffer handed to wc_CreateRecipientInfo
MaxRecipOut == 24

RecipCerts == {RsaCert, OtherRsaCert, EccCert, NotACert}

RecipArgs ==
    {[op |-> "args", cert |-> c, cek |-> k, outSz |-> o, fault |-> f] :
        c \in RecipCerts, k \in {Repeat(1, 2), Repeat(2, 2)},
        o \in 0..MaxRecipOut, f \in {NoFault, "rsaEncrypt"}}

InitRecipient ==
    /\ pkcs7 = NoSession
    /\ wire = <<>>
    /\ ret = 0
    /\ out = <<>>
    /\ mem = NoMem
    /\ call \in RecipArgs

\* out is the buffer of the caller after the call: the cells written
CreateRecipientInfo ==
    /\ call.op = "args"
    /\ LET r == wc_CreateRecipientInfo(call.cert, RSAk, 16, call.cek,
                                       call.outSz, call.fault)
       IN /\ ret' = r.ret
          /\ out' = r.out
    /\ call' = [call EXCEPT !.op = "wc_CreateRecipientInfo"]
    /\ UNCHANGED <<pkcs7, wire, mem>>

NextRecipient == CreateRecipientInfo

SpecRecipient == InitRecipient /\ [][NextRecipient]_vars

----------------------------------------------------------------------------
(* Properties.                                                             *)

\* the pad size of the pad law: blockSz - (inSz mod blockSz)
PadK == call.blockSz - (Len(call.in) % call.blockSz)

\* a call of wc_PKCS7_PadData within the pad law: inSz >= 1, blockSz >= 1,
\* outSz >= inSz + k
PadLawCase ==
    /\ call.op = "wc_PKCS7_PadData"
    /\ Len(call.in) >= 1
    /\ call.blockSz >= 1
    /\ call.outSz >= Len(call.in) + PadK

RoundTripCase ==
    /\ call.op = "wc_PKCS7_VerifySignedData"
    /\ mem.origin = "encoder"
    /\ mem.tampered = -1
    /\ mem.receiverCert = mem.cert

\* the fields of a SignerInfo in the order of the encoder
SignerInfoOrder(trace) ==
    /\ Len(trace) = 6
    /\ trace[1] = "version"
    /\ trace[2] \in {"IssuerAndSerialNumber", "SubjectKeyIdentifier"}
    /\ trace[3] = "digestAlgorithm"
    /\ trace[4] = "signedAttributes"
    /\ trace[5] = "digestEncryptionAlgorithm"
    /\ trace[6] = "signature"

\* C3: with signed attributes enabled, wc_PKCS7_VerifySignedData applied to
\* the unmodified output of wc_PKCS7_EncodeSignedData parses the SignerInfo
\* (version, signer identifier, digest algorithm, signed attributes,
\* signature algorithm, signature, in that order), returns 0 and exposes the
\* original content in the session.
C3_SignedRoundTrip ==
    (RoundTripCase /\ Len(mem.callerAttribs) > 0) =>
        /\ ret = 0
        /\ SignerInfoOrder(mem.verify.trace)
        /\ pkcs7.content = mem.content

\* a verification of what the encoder wrote with one cell changed
TamperedCase ==
    /\ call.op = "wc_PKCS7_VerifySignedData"
    /\ mem.origin = "encoder"
    /\ mem.tampered # -1

\* the changed cell is a byte of eContent or of the signature: no length
\* is broken
TamperedValue ==
    \/ /\ mem.tampered > mem.esd.contentIdx
       /\ mem.tampered <= mem.esd.contentIdx + Len(mem.content)
    \/ mem.tampered = Len(wire)

\* C2: if any field of an encoded SignedData between the first byte of
\* eContent and the last byte of the signature is changed,
\* wc_PKCS7_VerifySignedData never returns success: it returns SIG_VERIFY_E,
\* or a parse error when the change broke a length.
C2_SignatureCoverage ==
    TamperedCase =>
        /\ ret < 0
        /\ (TamperedValue => ret = SIG_VERIFY_E)

\* the SignedData encoder has returned a message with signed attributes
EncodedWithAttribs ==
    /\ mem.origin \in {"encoder", "peer"}
    /\ out # <<>>
    /\ mem.esd.signedAttribsSz > 0

\* the attribute bytes the encoder put on the wire, after their header
WireAttribs ==
    Slice(out, mem.esd.attribIdx + 2, IntAt(out, mem.esd.attribIdx + 1))

\* a universal SET header: tag 0x31 and the length
UniversalSet(len) == <<<<49>>, <<len>>>>

\* the signature of the signer over a digest of the attributes
SignatureOver(digest) ==
    IF ParseCert(mem.cert).keyOID = RSAk
    THEN wc_RsaSSL_Sign(SetSequence(10) \o SetAlgoID(SHA256h, oidHashType, 0)
                        \o SetOctetString(1) \o digest,
                        ParseCert(mem.cert).publicKey)
    ELSE wc_ecc_sign_hash(digest, ParseCert(mem.cert).publicKey)

\* C9: when signed attributes are present, the digest the encoder signs and
\* the digest the verifier recomputes is the hash of a universal SET header
\* followed by the flattened attribute bytes, while the wire carries the
\* IMPLICIT [0] tag; encoder and verifier hash identical bytes for
\* identical attribute content.
C9_Canonicalization ==
    /\ EncodedWithAttribs =>
        /\ IntAt(out, mem.esd.attribIdx) = 160
        /\ out[Len(out)] =
              SignatureOver(Hash(SHA256h, UniversalSet(Len(WireAttribs))
                                          \o WireAttribs))[1]
    /\ (/\ call.op = "wc_PKCS7_VerifySignedData"
        /\ mem.verify.signedAttrib # <<>>
        /\ mem.verify.plainDigest # <<>>) =>
        /\ mem.verify.plainDigest =
              Hash(pkcs7.hashOID, UniversalSet(Len(mem.verify.signedAttrib))
                                  \o mem.verify.signedAttrib)
        /\ (mem.verify.signedAttrib = WireAttribs =>
                mem.verify.plainDigest = mem.esd.contentAttribsDigest)

\* a peer's message with the encoder's signed attributes has been verified:
\* the verifier recomputed the digest over the attribute bytes of the wire
C9_Witness ==
    /\ call.op = "wc_PKCS7_VerifySignedData"
    /\ EncodedWithAttribs
    /\ mem.origin = "peer"
    /\ mem.tampered = -1
    /\ ret = 0
    /\ mem.verify.signedAttrib = WireAttribs
    /\ mem.verify.plainDigest = mem.esd.contentAttribsDigest

\* the attributes of the attribute ordering law: ContentType, MessageDigest,
\* SigningTime, then the attributes of the caller in array order
OrderedAttribs ==
    <<[oid |-> contentTypeOid, value |-> SetObjectId(DATA)],
      [oid |-> messageDigestOid,
       value |-> SetOctetString(1) \o Hash(SHA256h, mem.content)],
      [oid |-> signingTimeOid, value |-> signingTime]>>
    \o mem.callerAttribs

\* C10: whenever the SignedData encoder emits signed attributes, the
\* flattened attribute sequence is ContentType, MessageDigest, SigningTime,
\* then all caller-supplied attributes of pkcs7->signedAttribs in array
\* order, for every number of caller-supplied attributes.
C10_AttributeOrdering ==
    (EncodedWithAttribs /\ call.op = "wc_PKCS7_EncodeSignedData") =>
        WireAttribs = Concat([i \in 1..Len(OrderedAttribs) |->
                                FlattenOne(EncodeAttribute(OrderedAttribs[i]))])

\* a verification of a message without signers
DegenerateCase ==
    /\ call.op = "wc_PKCS7_VerifySignedData"
    /\ mem.origin = "degenerate"

\* C6: with degenerate support allowed (the default, or after
\* wc_PKCS7_AllowDegenerate(pkcs7, 1)), wc_PKCS7_VerifySignedData on a
\* SignedData whose digestAlgorithms and signerInfos are both empty returns
\* 0 without verifying any signer; after wc_PKCS7_AllowDegenerate(pkcs7, 0)
\* the same input returns PKCS7_NO_SIGNER_E.
C6_DegeneratePolicy ==
    DegenerateCase =>
        /\ (mem.allow \in {-1, 1} =>
                /\ ret = 0
                /\ mem.verify.trace = <<>>
                /\ mem.verify.sig = <<>>)
        /\ (mem.allow = 0 => ret = PKCS7_NO_SIGNER_E)

\* the public key of a certificate; its private key is the same number
KeyOf(cert) == ParseCert(cert).publicKey

\* a decode by the recipient the message was made for: a session with the
\* recipient's certificate and its private key, and no cipher that fails
OwnRecipientCase ==
    /\ call.op = "wc_PKCS7_DecodeEnvelopedData"
    /\ mem.receiverCert = mem.cert
    /\ mem.receiverKey = KeyOf(mem.cert)
    /\ mem.decode.fault = NoFault

\* the decoder returned the content the message was made from
ContentReturned ==
    /\ ret = Len(mem.content)
    /\ out = mem.content

\* C1: EnvelopedData round trip: for every non-empty content and every
\* supported content-encryption algorithm, wc_PKCS7_DecodeEnvelopedData
\* applied to the unmodified output of wc_PKCS7_EncodeEnvelopedData, on a
\* session holding the same recipient certificate and its private key,
\* returns the original content length and writes exactly the original
\* content bytes (PKCS#7 padding removed).
C1_EnvelopedRoundTrip ==
    (OwnRecipientCase /\ mem.origin = "encoder") => ContentReturned

\* no secret of a finished call is left in memory
AllZeroed(secrets) ==
    /\ secrets.contentKeyPlain # Live
    /\ secrets.decryptedKey # Live
    /\ secrets.kek # Live
    /\ secrets.secret # Live

\* C4: on every return path, success or error, of
\* wc_PKCS7_EncodeEnvelopedData, wc_PKCS7_DecodeEnvelopedData and the KARI
\* helpers, the content-encryption key (contentKeyPlain), the decrypted key
\* buffer, the KEK and the ECDH shared secret have been overwritten with
\* zeros before the function returns or the buffer is freed.
C4_SecretZeroing ==
    /\ call.op = "wc_PKCS7_EncodeEnvelopedData" =>
           AllZeroed([mem.encode EXCEPT !.fault = Unused]
                     @@ [decryptedKey |-> Unused])
    /\ call.op = "wc_PKCS7_DecodeEnvelopedData" =>
           AllZeroed([contentKeyPlain |-> Unused,
                      decryptedKey |-> mem.decode.decryptedKey,
                      kek |-> mem.decode.kek,
                      secret |-> mem.decode.secret])

\* the EnvelopedData version of a message for the recipients first and cert
\* (RFC 5652: 2 when a recipient is a KeyAgreeRecipientInfo, else 0)
RecipientsVersion ==
    IF \/ ParseCert(mem.cert).keyOID = ECDSAk
       \/ (mem.first # <<>> /\ ParseCert(mem.first).keyOID = ECDSAk)
    THEN 2 ELSE 0

\* a message with two recipients, decoded by the second
SecondRecipientCase ==
    /\ OwnRecipientCase
    /\ mem.origin = "peer"
    /\ mem.first # <<>>
    /\ mem.version = RecipientsVersion

\* C5: wc_PKCS7_DecodeEnvelopedData on an EnvelopedData whose RecipientInfos
\* SET holds two recipients, of which only the second matches the session's
\* certificate and private key, skips the first recipient without failing,
\* obtains the CEK from the second, and returns the original content.
C5_RecipientUniqueness == SecondRecipientCase => ContentReturned

\* the message carries a KeyAgreeRecipientInfo
CarriesKari ==
    \/ ParseCert(mem.cert).keyOID = ECDSAk
    \/ (mem.first # <<>> /\ ParseCert(mem.first).keyOID = ECDSAk)

\* C8: wc_PKCS7_EncodeEnvelopedData writes EnvelopedData version 2 whenever
\* the recipient is a KARI (ECDH) recipient and version 0 when the recipient
\* is KTRI (RSA); wc_PKCS7_DecodeEnvelopedData returns ASN_VERSION_E for
\* every message that carries a KARI recipient with version 0.
C8_VersionDependence ==
    /\ (call.op = "wc_PKCS7_EncodeEnvelopedData" /\ ret > 0) =>
           mem.version = IF ParseCert(mem.cert).keyOID = ECDSAk THEN 2 ELSE 0
    /\ (/\ call.op = "wc_PKCS7_DecodeEnvelopedData"
        /\ mem.origin = "peer"
        /\ CarriesKari
        /\ mem.version = 0) => ret = ASN_VERSION_E

\* the version the encoder writes follows the key type of its recipient
EncoderVersion ==
    (call.op = "wc_PKCS7_EncodeEnvelopedData" /\ ret > 0) =>
        mem.version = IF ParseCert(mem.cert).keyOID = ECDSAk THEN 2 ELSE 0

\* the round trip of sessions with a registered content type whose encoder
\* met no failing cipher
RoundTripRegistered ==
    (/\ OwnRecipientCase
     /\ mem.origin = "encoder"
     /\ mem.contentOID = DATA
     /\ mem.encode.fault = NoFault) => ContentReturned

\* both forms of the encoder have been called, on sessions alike, with the
\* digest of the content, and both succeeded
BothEncoded ==
    /\ mem.calls = {"single", "detached"}
    /\ mem.sameDigest
    /\ mem.single.ret > 0
    /\ mem.detached.ret = 0

\* C11: detached equivalence: for the same session state, content digest
\* and signature bytes, the head written by wc_PKCS7_EncodeSignedData_ex,
\* followed by the content, followed by the foot it wrote, is byte-identical
\* to the single buffer written by wc_PKCS7_EncodeSignedData; the head
\* contains no content bytes, and *outputHeadSz + contentSz + *outputFootSz
\* equals the byte count the non-detached encoder returns.
C11_DetachedEquivalence ==
    BothEncoded =>
        /\ mem.detached.out \o mem.content \o mem.detached.out2
               = mem.single.out
        /\ SubSeq(mem.single.out, 1, Len(mem.detached.out))
               = mem.detached.out
        /\ SubSeq(mem.single.out, Len(mem.detached.out) + 1,
                  Len(mem.detached.out) + Len(mem.content)) = mem.content
        /\ mem.detached.outputSz = Len(mem.detached.out)
        /\ mem.detached.output2Sz = Len(mem.detached.out2)
        /\ mem.detached.outputSz + Len(mem.content) + mem.detached.output2Sz
               = mem.single.ret

\* both forms have encoded a session with a certificate added and signed
\* attributes
C11_Witness ==
    /\ BothEncoded
    /\ Len(mem.added) > 0
    /\ Len(mem.detached.out2) > 0
    /\ Len(mem.detached.out) > 0

\* the elements of a SET OF, each a SEQUENCE header followed by its body,
\* read from input[idx .. maxIdx)
RECURSIVE ElementsFrom(_, _, _)
ElementsFrom(input, idx, maxIdx) ==
    IF idx + 2 > maxIdx \/ IntAt(input, idx + 1) < 0 THEN <<>>
    ELSE LET n == 2 + IntAt(input, idx + 1) IN
         <<Slice(input, idx, n)>> \o ElementsFrom(input, idx + n, maxIdx)

\* the certificates [0] IMPLICIT CertificateSet that opens the foot
EmittedCertificates(foot) ==
    IF Len(foot) < 2 \/ IntAt(foot, 0) # ASN_CONSTRUCTED + ASN_CONTEXT_SPECIFIC
    THEN <<>>
    ELSE ElementsFrom(foot, 2, 2 + IntAt(foot, 1))

\* C13: after wc_PKCS7_InitWithCert(signer) and wc_PKCS7_AddCertificate of
\* c1 .. cn, the certificate set of the emitted SignedData holds
\* cn, ..., c1, signer in that order, each of them once.
C13_CertificateOrder ==
    ("detached" \in mem.calls /\ mem.detached.ret = 0)
        => EmittedCertificates(mem.detached.out2)
               = Reverse(mem.added) \o <<mem.cert>>

C13_Witness ==
    /\ "detached" \in mem.calls
    /\ mem.detached.ret = 0
    /\ Len(mem.added) = 2
    /\ mem.added[1] # mem.added[2]
    /\ Len(EmittedCertificates(mem.detached.out2)) = 3

\* C14 as stated: singleCert and every node of the certificate list refer to
\* a certificate that ParseCert accepted when it was stored, and when
\* ParseCert fails inside wc_PKCS7_InitWithCert the call returns the error
\* and the session holds no reference to the rejected bytes.
C14_StoredCertsParsed ==
    pkcs7 # NoSession =>
        /\ pkcs7.singleCert # <<>> => ParseCert(pkcs7.singleCert).ret = 0
        /\ \A i \in 1..Len(pkcs7.certList) :
               ParseCert(pkcs7.certList[i]).ret = 0
        /\ call.op = "rejected"
              => /\ ret < 0
                 /\ pkcs7.singleCert = <<>>
                 /\ pkcs7.certList = <<>>

\* a verification that went through the rebinding to the message's
\* certificate
Rebound ==
    /\ call.op = "wc_PKCS7_VerifySignedData"
    /\ mem.before # NoSession
    /\ pkcs7.cert[1] # <<>>

\* C15: wc_PKCS7_InitWithCert leaves heap, devId and isDynamic as they were
\* and resets every other field; when the verifier rebinds the structure to
\* the certificate of the message, heap, devId, isDynamic, der and
\* contentDynamic are after the rebinding what they were before it.
C15_StatePreserved ==
    /\ mem.before # NoSession
          => /\ mem.init.heap = mem.before.heap
             /\ mem.init.devId = mem.before.devId
             /\ mem.init.isDynamic = mem.before.isDynamic
             /\ wc_PKCS7_InitWithCert(
                    [wc_PKCS7_Init(mem.before.heap, mem.before.devId)
                        EXCEPT !.isDynamic = mem.before.isDynamic],
                    mem.receiverCert).p = mem.init
             /\ mem.init.content = <<>> /\ mem.init.hashOID = 0
             /\ mem.init.rng = 0 /\ mem.init.noDegenerate = 0
             /\ mem.init.der = <<>> /\ mem.init.contentDynamic = <<>>
    /\ Rebound
          => /\ pkcs7.heap = mem.before.heap
             /\ pkcs7.devId = mem.before.devId
             /\ pkcs7.isDynamic = mem.before.isDynamic
             /\ pkcs7.der = IF mem.ber THEN wc_BerToDer(wire, Len(wire)).der
                            ELSE <<>>
             /\ pkcs7.contentDynamic = IF mem.multiPart THEN mem.content
                                       ELSE <<>>

C15_Witness ==
    /\ Rebound
    /\ mem.ber /\ mem.multiPart
    /\ pkcs7.der # <<>> /\ pkcs7.contentDynamic # <<>>
    /\ pkcs7.heap = 1 /\ pkcs7.devId = 1 /\ pkcs7.isDynamic = 1
    /\ ret = 0

\* the verifier went through the first SignerInfo up to its signature and
\* wc_PKCS7_SignedDataVerifySignature did not fail
SignerVerified ==
    /\ mem.verify.ret = 0
    /\ Len(mem.verify.trace) > 0
    /\ mem.verify.trace[Len(mem.verify.trace)] = "signature"
    /\ mem.verify.sig # <<>>

\* C17 as stated: the verifier returns 0 without verifying a signature only
\* when the signerInfos SET is empty and the degenerate policy allows it;
\* for a message whose signerInfos SET is not empty, as every message of the
\* rebinding specification is, a return of 0 implies that the first
\* SignerInfo was parsed and its signature verified, whatever the length of
\* the digestAlgorithms SET.
C17_VerificationSkippedOnlyWhenEmpty ==
    (call.op = "wc_PKCS7_VerifySignedData" /\ mem.before # NoSession
        /\ ret = 0)
        => SignerVerified

\* C12: whenever wc_PKCS7_EncodeData, the SignedData encoder in either
\* form, wc_PKCS7_EncodeEnvelopedData, wc_PKCS7_EncodeEncryptedData or
\* wc_PKCS7_GetAttributeValue returns BUFFER_E, every buffer the caller
\* handed to the call holds what it held before the call.
C12_NoPartialWrite ==
    (/\ call.op \in {"wc_PKCS7_EncodeData", "wc_PKCS7_EncodeSignedData",
                     "wc_PKCS7_EncodeSignedData_ex",
                     "wc_PKCS7_EncodeEnvelopedData",
                     "wc_PKCS7_EncodeEncryptedData",
                     "wc_PKCS7_GetAttributeValue"}
     /\ mem.kind # "none"
     /\ ret = BUFFER_E)
        => /\ out = mem.buffer
           /\ mem.after2 = mem.buffer2

C12_Witness ==
    /\ call.op = "wc_PKCS7_GetAttributeValue"
    /\ mem.kind = "encrypted"
    /\ ret = BUFFER_E
    /\ call.hasOut
    /\ call.outSz > 0
    /\ out = mem.buffer

\* the places in the decoded attribute list of the attributes whose OID is
\* the queried one
MatchingAttribs ==
    {i \in 1..Len(mem.decodedBefore) :
        SubSeq(mem.decodedBefore[i].oid, 3, Len(mem.decodedBefore[i].oid))
            = call.oid}

\* the value of the first attribute whose OID is the queried one
MatchedValue ==
    mem.decodedBefore[CHOOSE i \in MatchingAttribs :
                         \A j \in MatchingAttribs : i <= j].value

\* C16 as stated: when a decoded attribute matches the queried OID, a NULL
\* out makes wc_PKCS7_GetAttributeValue set *outSz to the size of the value
\* and return LENGTH_ONLY_E without copying, an out with *outSz smaller than
\* the value gives BUFFER_E, and otherwise the value is copied to out and its
\* size returned; when no attribute matches, ASN_PARSE_E is returned; the
\* decoded attribute list is left as it was.
C16_GetAttributeValue ==
    call.op = "wc_PKCS7_GetAttributeValue" =>
        /\ pkcs7.decodedAttrib = mem.decodedBefore
        /\ MatchingAttribs = {} => ret = ASN_PARSE_E
        /\ MatchingAttribs # {} =>
              /\ ~call.hasOut
                    => /\ ret = LENGTH_ONLY_E
                       /\ call.outSzAfter = Len(MatchedValue)
                       /\ out = <<>>
              /\ (call.hasOut /\ call.outSz < Len(MatchedValue))
                    => ret = BUFFER_E
              /\ (call.hasOut /\ call.outSz >= Len(MatchedValue))
                    => /\ ret = Len(MatchedValue)
                       /\ SubSeq(out, 1, Len(MatchedValue)) = MatchedValue

\* C18 as stated: a decoder never writes more than outputSz bytes to output
\* and returns a negative error or a length: the number of bytes copied,
\* encryptedContentSz - padLen, is at least 0 and at most outputSz, whatever
\* the last decrypted byte and outputSz are.
C18_DecoderOutputBounds ==
    call.op = "wc_PKCS7_DecodeEncryptedData" =>
        /\ mem.copied <= Len(mem.buffer)
        /\ Len(out) = Len(mem.buffer)
        /\ ret < 0 \/ ret <= Len(mem.buffer)

\* the certificate named by the only RecipientInfo the decoder looked at
\* (<<>>: it looked at none, or at more than one)
OnlyRecipientTried ==
    IF Len(mem.decode.tried) # 1 THEN <<>>
    ELSE IF mem.origin = "peer" /\ mem.first # <<>> THEN mem.first
    ELSE mem.cert

\* C19 as stated: wc_PKCS7_DecodeKtri marks a KeyTransRecipientInfo as the
\* session's recipient only when the issuer and the serial number it names
\* are those of the session's certificate: a recipient of the same issuer
\* with another serial number is not a match.
C19_KtriMatchesIssuerAndSerial ==
    (/\ call.op = "wc_PKCS7_DecodeEnvelopedData"
     /\ mem.decode.tried = <<"ktri">>
     /\ mem.decode.recipFound = 1) =>
        /\ ParseCert(OnlyRecipientTried).issuerHash
               = ParseCert(mem.receiverCert).issuerHash
        /\ ParseCert(OnlyRecipientTried).serial
               = ParseCert(mem.receiverCert).serial

\* the RecipientInfos SET of an encoded EnvelopedData holds one element
\* that is not empty: its length is positive and the header of the first
\* element spans it
OneRecipientInfo(w) ==
    /\ Len(w) >= 16
    /\ IntOf(w[14]) > 0
    /\ IntOf(w[16]) > 0
    /\ IntOf(w[16]) + 2 = IntOf(w[14])

\* C20 as stated: when wrapping the CEK under the KEK fails while the
\* KeyAgreeRecipientInfo is built, wc_PKCS7_EncodeEnvelopedData returns a
\* negative error code and produces no EnvelopedData; an encode that
\* succeeds contains exactly one non-empty RecipientInfo.
C20_KeyWrapFailureIsError ==
    call.op = "wc_PKCS7_EncodeEnvelopedData" =>
        /\ (mem.encode.fault = "keyWrap" /\ pkcs7.publicKeyOID = ECDSAk)
               => ret < 0
        /\ ret > 0 => OneRecipientInfo(out)

\* the public key of the retained certificate der verifies the signature
\* sig over the digests d of the first SignerInfo
CandidateVerifies(der, sig, d) ==
    LET dCert == ParseCert(der) IN
    /\ der # <<>>
    /\ dCert.ret >= 0
    /\ \/ /\ dCert.publicKey \in RsaKeys
          /\ \/ sig = wc_RsaSSL_Sign(d.pkcs7Digest, dCert.publicKey)
             \/ sig = wc_RsaSSL_Sign(d.plainDigest, dCert.publicKey)
       \/ /\ dCert.publicKey \in EccKeys
          /\ sig = wc_ecc_sign_hash(d.plainDigest, dCert.publicKey)

\* the verifier reached the signature of the first SignerInfo of a message
\* that carries certificates
SignatureTried ==
    /\ call.op = "wc_PKCS7_VerifySignedData"
    /\ Len(mem.verify.trace) > 0
    /\ mem.verify.trace[Len(mem.verify.trace)] = "signature"
    /\ mem.verify.sig # <<>>

\* C21 as stated: the signature verifiers try the retained certificates
\* cert[0] .. cert[MAX_PKCS7_CERTS-1], each try with the public key taken
\* from that certificate: they report success when the key of one of them
\* verifies the signature and SIG_VERIFY_E when none does.
C21_CandidateLoop ==
    SignatureTried =>
        LET d == wc_PKCS7_BuildSignedDataDigest(pkcs7, mem.verify.signedAttrib,
                                                Len(mem.verify.signedAttrib))
            some == \E i \in 1..MAX_PKCS7_CERTS :
                        CandidateVerifies(pkcs7.cert[i], mem.verify.sig, d)
        IN  /\ some => ret = 0
            /\ ~some => ret = SIG_VERIFY_E

\* the verifier was given a message signed anew by a peer
ResignedVerified ==
    /\ call.op = "wc_PKCS7_VerifySignedData"
    /\ mem.over # "none"

\* C22: an RSA signature is accepted exactly when it was made over the
\* DigestInfo or over the bare digest, an ECDSA signature exactly when it
\* was made over the bare digest, and a signature algorithm whose key type
\* is neither gives BAD_FUNC_ARG.
C22_VerificationCandidates ==
    ResignedVerified =>
        IF mem.sigOID = CTC_SHAwDSA THEN ret = BAD_FUNC_ARG
        ELSE IF mem.sigOID = CTC_SHA256wRSA
        THEN /\ mem.over \in {"pkcs7Digest", "plainDigest"} => ret = 0
             /\ mem.over = "other" => ret = SIG_VERIFY_E
        ELSE /\ mem.sigOID = CTC_SHA256wECDSA
             /\ mem.over = "plainDigest" => ret = 0
             /\ mem.over # "plainDigest" => ret = SIG_VERIFY_E

\* an RSA signature over the bare digest was accepted
C22_Witness ==
    /\ ResignedVerified
    /\ mem.sigOID = CTC_SHA256wRSA
    /\ mem.over = "plainDigest"
    /\ SignerVerified
    /\ ret = 0

\* C23 as stated: an attribute is found only if the OID value octets stored
\* for it, after the OBJECT IDENTIFIER tag and length, equal the queried oid
\* in length and content; of several such attributes the one nearest the
\* head of the list is returned.
C23_LookupByOid ==
    call.op = "wc_PKCS7_GetAttributeValue" =>
        /\ ret # ASN_PARSE_E => MatchingAttribs # {}
        /\ MatchingAttribs # {} =>
              /\ ret # ASN_PARSE_E
              /\ ~call.hasOut => call.outSzAfter = Len(MatchedValue)
              /\ ret > 0 => SubSeq(out, 1, ret) = MatchedValue

\* C24 as stated: when wc_PKCS7_Free has returned, every heap region the
\* session allocated has been released exactly once (none is left, none was
\* released twice), and no buffer of the caller has been released.
C24_HeapOwnership ==
    call.op = "wc_PKCS7_Free" =>
        \A k \in DOMAIN mem.heap : mem.heap[k] = 0

\* the steps of wc_PKCS7_Free made after the structure was released
StepsAfterRelease ==
    {i \in 1..Len(mem.steps) :
        \E j \in 1..(i - 1) : mem.steps[j] = "free pkcs7"}

\* C25 as stated: wc_PKCS7_Free neither reads nor writes the structure
\* after it has released it, for a structure of wc_PKCS7_New as for one of
\* the caller.
C25_NoUseAfterRelease ==
    call.op = "wc_PKCS7_Free" => StepsAfterRelease = {}

\* C26 as stated: the certificate list always ends in NULL; after
\* wc_PKCS7_AddCertificate succeeds on a session whose list is empty the
\* next pointer of the new node is NULL and the list has one node.
C26_WellFormedCertList ==
    /\ mem.next = "null"
    /\ (call.op = "wc_PKCS7_AddCertificate" /\ ret = 0
           /\ mem.before.certList = <<>>)
          => Len(pkcs7.certList) = 1

\* C27 as stated: for every number of caller attributes, the count of
\* signed attributes handed to FlattenAttributes is at most the 7 entries of
\* esd->signedAttribs and is the number of entries EncodeAttributes filled,
\* and the bytes flattened are esd->signedAttribsSz in number.
C27_SignedAttribsCount ==
    (call.op = "wc_PKCS7_EncodeSignedData" /\ mem.esd.signedAttribsCount > 0)
        => /\ mem.esd.signedAttribsCount <= 7
           /\ mem.esd.signedAttribsCount = 3 + min(4, Len(mem.callerAttribs))
           /\ Len(mem.esd.flatSignedAttribs) = mem.esd.signedAttribsSz

\* the inner content type of an encoded EnvelopedData w: the cells at the
\* start of the EncryptedContentInfo, after the RecipientInfos SET
InnerContentTypeAt(w) == 14 + IntOf(w[14]) + 3

\* C28 as stated: an encoder that writes an inner content-type OID writes an
\* OBJECT IDENTIFIER that is not empty or returns an error: no successful
\* encode carries a content type of length 0, whatever contentOID is.
C28_InnerContentTypeNotEmpty ==
    (call.op = "wc_PKCS7_EncodeEnvelopedData" /\ ret > 0) =>
        /\ Len(out) > InnerContentTypeAt(out)
        /\ out[InnerContentTypeAt(out)] = <<ASN_OBJECT_ID>>
        /\ IntOf(out[InnerContentTypeAt(out) + 1]) > 0

\* C29 as stated: wc_PKCS7_PadData called with blockSz = 0 returns a
\* negative error code and writes nothing to out, for every inSz and outSz,
\* as wc_PKCS7_GetPadSize returns BAD_FUNC_ARG for blockSz = 0.
C29_ZeroBlockSizeRejected ==
    (call.op = "wc_PKCS7_PadData" /\ call.blockSz = 0) =>
        /\ wc_PKCS7_GetPadSize(Len(call.in), call.blockSz) = BAD_FUNC_ARG
        /\ ret < 0
        /\ out = <<>>


\* C30 as stated: whenever wc_CreateRecipientInfo does not return BUFFER_E,
\* the number of bytes it writes to out (RecipientInfo header, version,
\* IssuerAndSerialNumber header, issuer header, raw issuer DN, serial,
\* key-encryption algorithm id, encrypted-key header and encrypted key) is
\* at most outSz.
C30_RecipientInfoInsideBuffer ==
    (call.op = "wc_CreateRecipientInfo" /\ ret # BUFFER_E) =>
        Len(out) <= call.outSz
====
